---- MODULE Spec2Model ----
(***************************************************************************)
(* Model of the binding declaration collector of wasm-bindgen              *)
(* (crates/macro-support/src/parser.rs): attribute bags with consumed      *)
(* flags, the parsed/checks audit counters, and the lowering of            *)
(* declarations into ast::Program; and of the adapter builder              *)
(* (crates/cli-support/src/js/binding.rs): the Builder that assembles the  *)
(* JS text of one function shim.                                           *)
(*                                                                         *)
(* Source positions (Span) are modelled as <<owner, group, index>>: the    *)
(* declaration part that carries the attribute (0 = the item itself,       *)
(* k = its k-th field / foreign item), the #[wasm_bindgen(..)] group and   *)
(* the position inside the group.  Token streams emitted back to rustc     *)
(* (to_tokens), doc comments and types are not part of the state.          *)
(***************************************************************************)
EXTENDS Integers, Sequences, FiniteSets, TLC

VARIABLES
    strict,           \* cfg(feature = "strict-macro"), fixed per build
    overflow_checks,  \* build profile: u32 `+` panics on overflow (TRUE) or wraps
    parsed,           \* ATTRS.parsed
    checks,           \* ATTRS.checks
    program,          \* ast::Program being accumulated
    opts,             \* bag built by Parse for the next Item::macro_parse (None if absent)
    last,             \* outcome of the most recent operation
    allOk,            \* every lowering since reset_attrs_used returned Ok
    steps,            \* number of lowerings so far (bounded)
    builder,          \* js::binding::Builder: the adapter being drafted
    cx,               \* js::Context as far as the Builder uses it
    adapter           \* outcome of the most recent Builder call

\* the collector's and the builder's variables
cvars == <<strict, overflow_checks, parsed, checks, program, opts, last, allOk, steps>>
bvars == <<builder, cx, adapter>>
vars == <<strict, overflow_checks, parsed, checks, program, opts, last, allOk, steps,
          builder, cx, adapter>>

\* Option<T>: None, or Some(x)
None == <<>>
Some(x) == <<x>>

----------------------------------------------------------------------------
(* Bounds *)

MaxSteps == 2        \* expansions (lowerings) per Program in Spec
MaxGroupLen == 3     \* attributes in one #[wasm_bindgen(..)] group
MaxAccesses == 3     \* accessor calls on one bag in SpecAttrs
MaxVariants == 3     \* variants of an enum in SpecEnum

----------------------------------------------------------------------------
(* Attribute vocabulary: attrgen!, lines 27-57 *)

SpanKw == {"catch", "constructor", "method", "indexing_getter",
           "indexing_setter", "indexing_deleter", "structural", "final",
           "readonly", "variadic", "typescript_custom_section", "start",
           "skip"}
IdentKw == {"static_method_of", "js_namespace", "vendor_prefix"}
OptIdentKw == {"getter", "setter"}
StringKw == {"module", "raw_module", "inline_js", "js_name", "js_class"}
PathKw == {"extends"}
ExprKw == {"is_type_of"}

attrgen == SpanKw \cup IdentKw \cup OptIdentKw \cup StringKw \cup PathKw \cup ExprKw

\* A token as written in the source: keyword and payload (None when the
\* keyword is written without `= ...`).
Tok(kw, val) == [kw |-> kw, val |-> val]
TV(kw, s) == Tok(kw, Some(s))

\* BindgenAttr::parse: a keyword of the vocabulary with the payload shape
\* of its variant is accepted, anything else is a syntax error.
BindgenAttr_parse_ok(t) ==
    \/ t.kw \in SpanKw /\ t.val = None
    \/ t.kw \in OptIdentKw
    \/ t.kw \in (IdentKw \cup StringKw \cup PathKw \cup ExprKw) /\ t.val # None

Diag(msg, span) == [msg |-> msg, span |-> span]

UnusedMsg == "unused #[wasm_bindgen] attribute"

----------------------------------------------------------------------------
(* Generic sequence helpers *)

RECURSIVE UnusedIdx(_, _)
\* indices i >= from of the bag, ascending, whose consumed flag is false
UnusedIdx(bag, from) ==
    IF from > Len(bag) THEN <<>>
    ELSE IF ~bag[from].used THEN <<from>> \o UnusedIdx(bag, from + 1)
    ELSE UnusedIdx(bag, from + 1)

Range(s) == {s[i] : i \in DOMAIN s}

----------------------------------------------------------------------------
(* BindgenAttrs: Vec<(Cell<bool>, BindgenAttr)> *)

Entry(t, span) == [kw |-> t.kw, val |-> t.val, span |-> span, used |-> FALSE]

\* Position of the entry the iterator `.filter_map(..).next()` stops at
\* (as a set: empty when no entry matches).
First(bag, kw) ==
    IF \E i \in DOMAIN bag : bag[i].kw = kw
    THEN {CHOOSE i \in DOMAIN bag :
              bag[i].kw = kw /\ \A j \in 1..(i - 1) : bag[j].kw # kw}
    ELSE {}

FirstAll(bag, kw) ==
    IF \E i \in DOMAIN bag : bag[i].kw = kw
    THEN {i \in DOMAIN bag : bag[i].kw = kw}
    ELSE {}

\* methods! @method: the entries whose closure (and a.0.set(true)) runs.
\* The iterator is lazy and `.next()` pulls one item, so the closure
\* returns Some for the first match only and later entries are not visited.
Touched(bag, kw) == First(bag, kw)

Accessor(bag, kw) ==
    LET hit == Touched(bag, kw)
        first == First(bag, kw)
    IN [bag |-> [i \in DOMAIN bag |->
                    IF i \in hit THEN [bag[i] EXCEPT !.used = TRUE] ELSE bag[i]],
        ret |-> IF first = {} THEN None
                ELSE Some(bag[CHOOSE i \in first : TRUE].val)]

\* accessor(..).is_some()
Has(bag, kw) == First(bag, kw) # {}
\* the bag after the accessor for kw ran
Mark(bag, kw) == Accessor(bag, kw).bag
\* payload of the first entry of kw (only used under Has): as written
\* (an Option) and unwrapped
Payload(bag, kw) == Accessor(bag, kw).ret[1]
Val(bag, kw) == Payload(bag, kw)[1]

RECURSIVE MarkAll(_, _)
\* the bag after the accessors of the sequence kws ran in order
MarkAll(bag, kws) ==
    IF kws = <<>> THEN bag ELSE MarkAll(Mark(bag, Head(kws)), Tail(kws))

\* check_used under cfg(not(feature = "strict-macro")): lines 87-92
check_used_lenient(bag) == <<>>

\* a strict check_used that reports nothing
check_used_silent(bag) == <<>>

\* check_used under cfg(feature = "strict-macro"): lines 63-85
check_used_strict(bag) ==
    LET idx == UnusedIdx(bag, 1)
    IN [k \in DOMAIN idx |-> Diag(UnusedMsg, bag[idx[k]].span)]

\* The diagnostics check_used returns (empty = Ok(())).  Both variants
\* bump ATTRS.checks; the caller of this operator accounts for it.
check_used(bag) ==
    IF strict THEN check_used_strict(bag) ELSE check_used_lenient(bag)

----------------------------------------------------------------------------
(* Construction of bags *)

\* What running a piece of the collector did to the audit state:
\*   p, c     how often BindgenAttrs::default / check_used ran
\*   audited  the bags as they were when check_used consumed them
Eff(p, c, audited) == [p |-> p, c |-> c, audited |-> audited]
NoEff == Eff(0, 0, <<>>)
Plus(e, f) == Eff(e.p + f.p, e.c + f.c, e.audited \o f.audited)

\* impl Parse for BindgenAttrs, lines 189-200.  default() runs first, so
\* the bag is counted even when parse_terminated fails.
parse(toks, owner, g) ==
    LET bad == {i \in DOMAIN toks : ~BindgenAttr_parse_ok(toks[i])}
        fst == CHOOSE i \in bad : \A j \in bad : i <= j
    IN IF bad = {}
       THEN [bag |-> [i \in DOMAIN toks |-> Entry(toks[i], <<owner, g, i>>)],
             ok |-> TRUE, errors |-> <<>>]
       ELSE [bag |-> <<>>, ok |-> FALSE,
             errors |-> <<Diag(IF toks[fst].kw \in attrgen
                               THEN "malformed attribute argument"
                               ELSE "unknown attribute", <<owner, g, fst>>)>>]

\* A #[wasm_bindgen ...] attribute as found on a field or item: its token
\* trees are a parenthesised group ("paren"), nothing at all ("bare"), or
\* anything else ("malformed").
Group(shape, toks) == [toks |-> toks, shape |-> shape]

RECURSIVE find_loop(_, _, _, _, _)
\* BindgenAttrs::find, the loop of lines 147-173, from the g-th
\* wasm_bindgen attribute on; ret is the bag collected so far.
find_loop(groups, g, owner, ret, eff) ==
    IF g > Len(groups)
    THEN [bag |-> ret, ok |-> TRUE, errors |-> <<>>, eff |-> eff]
    ELSE LET grp == groups[g] IN
         IF grp.shape = "bare" THEN find_loop(groups, g + 1, owner, ret, eff)
         ELSE IF grp.shape # "paren"
         THEN [bag |-> ret, ok |-> FALSE,
               errors |-> <<Diag("malformed #[wasm_bindgen] attribute",
                                 <<owner, g, 0>>)>>,
               eff |-> eff]
         ELSE LET pr == parse(grp.toks, owner, g) IN
              IF ~pr.ok
              THEN [bag |-> ret, ok |-> FALSE, errors |-> pr.errors,
                    eff |-> Plus(eff, Eff(1, 0, <<>>))]
              ELSE \* ret.attrs.extend(attrs.attrs.drain(..)); attrs.check_used()?
                   LET drained == <<>>
                       ce == check_used(drained)
                       eff2 == Plus(eff, Eff(1, 1, <<drained>>))
                   IN IF ce # <<>>
                      THEN [bag |-> ret \o pr.bag, ok |-> FALSE,
                            errors |-> ce, eff |-> eff2]
                      ELSE find_loop(groups, g + 1, owner, ret \o pr.bag, eff2)

\* find with `ret` built without BindgenAttrs::default()
find_without_default(groups, owner) == find_loop(groups, 1, owner, <<>>, NoEff)

\* BindgenAttrs::find, lines 145-174: ret = BindgenAttrs::default(), then
\* the loop.
find(groups, owner) == find_loop(groups, 1, owner, <<>>, Eff(1, 0, <<>>))

----------------------------------------------------------------------------
(* Syntax of the declarations handed to the collector (syn types) *)

\* syn::Type, as far as the collector looks into it
TPath(lead, nseg, ident, args) ==
    [k |-> "path", lead |-> lead, nseg |-> nseg, ident |-> ident, args |-> args]
TRef(mut, elem) == [k |-> "ref", mut |-> mut, elem |-> elem]
TTuple(n) == [k |-> "tuple", n |-> n]
\* path arguments: "none", "paren" (Fn(A) -> B sugar), or the list of
\* angle-bracketed generic arguments, each a type or a non-type argument
NoArgs == [kind |-> "none", gargs |-> <<>>]
ParenArgs == [kind |-> "paren", gargs |-> <<>>]
Angle(gargs) == [kind |-> "angle", gargs |-> gargs]
GType(ty) == [g |-> "type", ty |-> Some(ty)]
GOther == [g |-> "binding", ty |-> None]
Ident(name) == TPath(FALSE, 1, name, NoArgs)

\* Outcome of one fallible piece of a lowering
Ok(v, bag, eff) == [bag |-> bag, errors |-> <<>>, eff |-> eff, v |-> v, result |-> "Ok"]
Err(errors, bag, eff) ==
    [bag |-> bag, errors |-> errors, eff |-> eff, v |-> None, result |-> "Err"]
Panic(msg, bag, eff) ==
    [bag |-> bag, errors |-> <<Diag(msg, <<"panic">>)>>, eff |-> eff, v |-> None,
     result |-> "Panic"]
Bail(msg, span, bag, eff) == Err(<<Diag(msg, span)>>, bag, eff)

\* Outcome of lowering a declaration: result, diagnostics, audit effect,
\* the Program afterwards and what else the caller can observe
Out(result, errors, eff, prog, info) ==
    [errors |-> errors, eff |-> eff, result |-> result, prog |-> prog, info |-> info]

\* check_used without the bump of ATTRS.checks
Audit_uncounted(eff, bag) == Plus(eff, Eff(0, 0, <<bag>>))

\* one audit: check_used consumed `bag`
Audit(eff, bag) == Plus(eff, Eff(0, 1, <<bag>>))

\* `opts.check_used()?; Ok(v)` at the end of a convert
check_used_then(v, bag, eff) ==
    IF check_used(bag) # <<>> THEN Err(check_used(bag), bag, Audit(eff, bag))
    ELSE Ok(v, bag, Audit(eff, bag))

\* `opts.check_used()?; Ok(())` at the end of a macro_parse
check_used_out(bag, eff, prog, info) ==
    IF check_used(bag) # <<>> THEN Out("Err", check_used(bag), Audit(eff, bag), prog, info)
    ELSE Out("Ok", <<>>, Audit(eff, bag), prog, info)

\* extract_first_ty_param, lines 1179-1214: [ok, ty] with ty = None for
\* Ok(None)
extract_first_ty_param(ty) ==
    IF ty = None THEN [msg |-> "", ok |-> TRUE, ty |-> None]
    ELSE IF ty[1].k # "path" THEN [msg |-> "must be Result<...>", ok |-> FALSE, ty |-> None]
    ELSE IF ty[1].args.kind # "angle"
    THEN [msg |-> "must be Result<...>", ok |-> FALSE, ty |-> None]
    ELSE IF ty[1].args.gargs = <<>>
    THEN [msg |-> "must have at least one generic parameter", ok |-> FALSE, ty |-> None]
    ELSE IF ty[1].args.gargs[1].g # "type"
    THEN [msg |-> "must be a type parameter", ok |-> FALSE, ty |-> None]
    ELSE LET t == ty[1].args.gargs[1].ty[1] IN
         IF t.k = "tuple" /\ t.n = 0 THEN [msg |-> "", ok |-> TRUE, ty |-> None]
         ELSE [msg |-> "", ok |-> TRUE, ty |-> Some(t)]

\* extract_path_ident, lines 1279-1292
extract_path_ident(path) ==
    IF path.lead THEN [msg |-> "global paths are not supported yet", ok |-> FALSE, ident |-> ""]
    ELSE IF path.nseg # 1
    THEN [msg |-> "multi-segment paths are not supported yet", ok |-> FALSE, ident |-> ""]
    ELSE IF path.args.kind # "none"
    THEN [msg |-> "paths with type parameters are not supported yet", ok |-> FALSE, ident |-> ""]
    ELSE [msg |-> "", ok |-> TRUE, ident |-> path.ident]

\* assert_not_variadic, lines 1269-1276: the diagnostics (empty = Ok) and
\* the bag after the variadic accessor ran
assert_not_variadic(bag) ==
    LET a == Accessor(bag, "variadic") IN
    [bag |-> a.bag,
     errors |-> IF a.ret # None
                THEN <<Diag("the 'variadic' attribute can only be applied to imported ('extern') functions",
                            bag[CHOOSE i \in First(bag, "variadic") : TRUE].span)>>
                ELSE <<>>]

\* operation_kind, lines 1307-1325: all five accessors run; a later match
\* overrides an earlier one
operation_kind(bag) ==
    LET k1 == IF Has(bag, "getter") THEN <<"Getter", Payload(bag, "getter")>> ELSE <<"Regular">>
        k2 == IF Has(bag, "setter") THEN <<"Setter", Payload(bag, "setter")>> ELSE k1
        k3 == IF Has(bag, "indexing_getter") THEN <<"IndexingGetter">> ELSE k2
        k4 == IF Has(bag, "indexing_setter") THEN <<"IndexingSetter">> ELSE k3
        k5 == IF Has(bag, "indexing_deleter") THEN <<"IndexingDeleter">> ELSE k4
    IN [bag |-> MarkAll(bag, <<"getter", "setter", "indexing_getter",
                               "indexing_setter", "indexing_deleter">>),
        kind |-> k5]

\* A function signature (syn::FnDecl with the receiver split off):
\*   self   "none", "value" (self), "ref" (&self), "refmut" (&mut self)
FnDecl(variadic, generics, lifetimes, self, args, ret) ==
    [ret |-> ret, args |-> args, variadic |-> variadic,
     generics |-> generics, lifetimes |-> lifetimes, self |-> self]

\* replace_self, lines 646-664
replace_self(t, self_ty) ==
    IF self_ty = None THEN t
    ELSE IF t.k # "path" THEN t
    ELSE IF t.nseg = 1 /\ t.ident = "Self" THEN Ident(self_ty[1])
    ELSE t

\* function_from_decl, lines 623-715
function_from_decl(decl_name, bag, decl, allow_self, self_ty, eff) ==
    IF decl.variadic
    THEN Bail("can't #[wasm_bindgen] variadic functions", <<"decl">>, bag, eff)
    ELSE IF decl.generics
    THEN Bail("can't #[wasm_bindgen] functions with lifetime or type parameters", <<"decl">>, bag, eff)
    ELSE IF decl.lifetimes
    THEN Bail("it is currently not sound to use lifetimes in function signatures", <<"decl">>, bag, eff)
    ELSE IF decl.self \in {"ref", "refmut"} /\ ~allow_self
    THEN Panic("arguments cannot be 'self' or ignored", bag, eff)
    ELSE
    LET method_self == CASE decl.self = "value" -> Some("ByValue")
                         [] decl.self = "refmut" -> Some("RefMutable")
                         [] decl.self = "ref" -> Some("RefShared")
                         [] OTHER -> None
        arguments == [i \in DOMAIN decl.args |-> replace_self(decl.args[i], self_ty)]
        ret == IF decl.ret = None THEN None ELSE Some(replace_self(decl.ret[1], self_ty))
        jn == Accessor(bag, "js_name")
    IN Ok([method_self |-> method_self,
           function |-> [ret |-> ret,
                         name |-> IF jn.ret # None THEN jn.ret[1][1] ELSE decl_name,
                         arguments |-> arguments,
                         renamed_via_js_name |-> jn.ret # None]],
          jn.bag, eff)

----------------------------------------------------------------------------
(* Lowering of structs *)

\* shared::struct_field_get / struct_field_set (external helper)
struct_field_get(js_name, field) == <<"__wbg_get", js_name, field>>
struct_field_set(js_name, field) == <<"__wbg_set", js_name, field>>

RECURSIVE struct_fields(_, _, _, _, _)

\* attrs.check_used()? at the end of the loop body for field i (lines 335,
\* 352), then the rest of the loop
struct_field_audit(s, i, js_name, acc, bag, eff) ==
    IF check_used(bag) # <<>> THEN Err(check_used(bag), <<>>, Audit(eff, bag))
    ELSE struct_fields(s, i + 1, js_name, acc, Audit(eff, bag))

\* lines 333-352 for the public field i, whose attributes are nv.bag
struct_field_push(s, i, js_name, acc, name_str, nv, eff) ==
    IF nv.errors # <<>> THEN Err(nv.errors, <<>>, eff)
    ELSE IF Has(nv.bag, "skip")
    THEN struct_field_audit(s, i, js_name, acc, Mark(nv.bag, "skip"), eff)
    ELSE struct_field_audit(s, i, js_name,
             Append(acc, [name |-> name_str,
                          struct_name |-> s.ident,
                          readonly |-> Has(Mark(nv.bag, "skip"), "readonly"),
                          getter |-> struct_field_get(js_name, name_str),
                          setter |-> struct_field_set(js_name, name_str)]),
             MarkAll(nv.bag, <<"skip", "readonly">>), eff)

\* lines 327-333 for the public field i: fr is what find returned
struct_field(s, i, js_name, acc, fr, eff) ==
    IF ~fr.ok THEN Err(fr.errors, <<>>, Plus(eff, fr.eff))
    ELSE struct_field_push(s, i, js_name, acc,
             IF s.fields[i].name # None THEN s.fields[i].name[1] ELSE ToString(i - 1),
             assert_not_variadic(fr.bag), Plus(eff, fr.eff))

\* the field loop without the visibility test of lines 323-326
struct_fields_any_vis(s, i, js_name, acc, eff) ==
    IF i > Len(s.fields) THEN Ok(acc, <<>>, eff)
    ELSE struct_field(s, i, js_name, acc, find(s.fields[i].groups, i), eff)

\* ItemStruct::convert, the field loop of lines 322-353, from field i on
struct_fields(s, i, js_name, acc, eff) ==
    IF i > Len(s.fields) THEN Ok(acc, <<>>, eff)
    ELSE IF ~s.fields[i].pub THEN struct_fields(s, i + 1, js_name, acc, eff)
    ELSE struct_field(s, i, js_name, acc, find(s.fields[i].groups, i), eff)

\* lines 354-362: the struct's own audit once the fields fs are lowered
ItemStruct_finish(s, js_name, b1, fs) ==
    IF fs.result # "Ok" THEN Err(fs.errors, b1, fs.eff)
    ELSE check_used_then([js_name |-> js_name, fields |-> fs.v, rust_name |-> s.ident],
                         b1, fs.eff)

\* lines 318-321
struct_js_name(s, attrs) == IF Has(attrs, "js_name") THEN Val(attrs, "js_name") ELSE s.ident

\* ConvertToAst for ItemStruct, lines 306-363
ItemStruct_convert(s, attrs, eff) ==
    IF s.generics
    THEN Bail("structs with #[wasm_bindgen] cannot have lifetime or type parameters currently",
              <<"generics">>, attrs, eff)
    ELSE ItemStruct_finish(s, struct_js_name(s, attrs), Mark(attrs, "js_name"),
                           struct_fields(s, 1, struct_js_name(s, attrs), <<>>, eff))

----------------------------------------------------------------------------
(* Lowering of foreign items *)

\* backend::util::ShortHash: a deterministic digest of its input, kept
\* symbolic
ShortHash(data) == <<"hash", data>>

\* wasm.name.chars().filter(|c| c.is_ascii_alphanumeric()), lines 485-488,
\* on the names of the pools below
alphanumeric(name) == IF name = "a.b" THEN "ab" ELSE name

SpanOf(bag, kw) == bag[CHOOSE i \in First(bag, kw) : TRUE].span

\* the kind with static_method_of looked at before method
import_function_kind_static_first(f, bag, wasm, js_ret, opkind) ==
    LET b1 == Mark(bag, "static_method_of")
        b2 == Mark(b1, "method")
        b3 == Mark(b2, "constructor")
        fail(msg, b) == [msg |-> msg, bag |-> b, ok |-> FALSE, kind |-> [k |-> "None"]]
        meth(class, ty, kind, b) ==
            [msg |-> "", bag |-> b, ok |-> TRUE,
             kind |-> [k |-> "Method", kind |-> kind, ty |-> ty, class |-> class]]
        js_class(b, dflt) == IF Has(b, "js_class") THEN Val(b, "js_class") ELSE dflt
    IN IF Has(bag, "static_method_of")
       THEN meth(js_class(b1, Val(bag, "static_method_of")),
                 Ident(Val(bag, "static_method_of")),
                 [kind |-> opkind, op |-> "Operation", is_static |-> TRUE],
                 Mark(b1, "js_class"))
       ELSE IF Has(b1, "method")
       THEN IF wasm.arguments = <<>>
            THEN fail("imported methods must have at least one argument", b2)
            ELSE LET a0 == wasm.arguments[1] IN
            IF ~(a0.k = "ref" /\ ~a0.mut)
            THEN fail("first argument of method must be a shared reference", b2)
            ELSE IF a0.elem.k # "path"
            THEN fail("first argument of method must be a path", b2)
            ELSE IF ~extract_path_ident(a0.elem).ok
            THEN fail(extract_path_ident(a0.elem).msg, b2)
            ELSE meth(js_class(b2, extract_path_ident(a0.elem).ident), a0.elem,
                      [kind |-> opkind, op |-> "Operation", is_static |-> FALSE],
                      Mark(b2, "js_class"))
       ELSE IF Has(b2, "constructor")
       THEN IF js_ret = None
            THEN fail("constructor returns must be bare types", b3)
            ELSE IF js_ret[1].k # "path"
            THEN fail("return value of constructor must be a bare path", b3)
            ELSE IF ~extract_path_ident(js_ret[1]).ok
            THEN fail(extract_path_ident(js_ret[1]).msg, b3)
            ELSE meth(js_class(b3, extract_path_ident(js_ret[1]).ident), js_ret[1],
                      [op |-> "Constructor"], Mark(b3, "js_class"))
       ELSE [msg |-> "", bag |-> b3, ok |-> TRUE, kind |-> [k |-> "Normal"]]

\* The kind of an imported function, lines 399-475:
\* [ok, msg, kind, bag] with bag the flags after the accessors ran
import_function_kind(f, bag, wasm, js_ret, opkind) ==
    LET b1 == Mark(bag, "method")
        b2 == Mark(b1, "static_method_of")
        b3 == Mark(b2, "constructor")
        fail(msg, b) == [msg |-> msg, bag |-> b, ok |-> FALSE, kind |-> [k |-> "None"]]
        meth(class, ty, kind, b) ==
            [msg |-> "", bag |-> b, ok |-> TRUE,
             kind |-> [k |-> "Method", kind |-> kind, ty |-> ty, class |-> class]]
        js_class(b, dflt) == IF Has(b, "js_class") THEN Val(b, "js_class") ELSE dflt
    IN IF Has(bag, "method")
       THEN IF wasm.arguments = <<>>
            THEN fail("imported methods must have at least one argument", b1)
            ELSE LET a0 == wasm.arguments[1] IN
            IF ~(a0.k = "ref" /\ ~a0.mut)
            THEN fail("first argument of method must be a shared reference", b1)
            ELSE IF a0.elem.k # "path"
            THEN fail("first argument of method must be a path", b1)
            ELSE IF ~extract_path_ident(a0.elem).ok
            THEN fail(extract_path_ident(a0.elem).msg, b1)
            ELSE meth(js_class(b1, extract_path_ident(a0.elem).ident), a0.elem,
                      [kind |-> opkind, op |-> "Operation", is_static |-> FALSE],
                      Mark(b1, "js_class"))
       ELSE IF Has(b1, "static_method_of")
       THEN meth(js_class(b2, Val(b1, "static_method_of")),
                 Ident(Val(b1, "static_method_of")),
                 [kind |-> opkind, op |-> "Operation", is_static |-> TRUE],
                 Mark(b2, "js_class"))
       ELSE IF Has(b2, "constructor")
       THEN IF js_ret = None
            THEN fail("constructor returns must be bare types", b3)
            ELSE IF js_ret[1].k # "path"
            THEN fail("return value of constructor must be a bare path", b3)
            ELSE IF ~extract_path_ident(js_ret[1]).ok
            THEN fail(extract_path_ident(js_ret[1]).msg, b3)
            ELSE meth(js_class(b3, extract_path_ident(js_ret[1]).ident), js_ret[1],
                      [op |-> "Constructor"], Mark(b3, "js_class"))
       ELSE [msg |-> "", bag |-> b3, ok |-> TRUE, kind |-> [k |-> "Normal"]]

\* `structural` and `final` both given, lines 492-497
final_structural_conflict(bag) == Has(bag, "final") /\ Has(Mark(bag, "final"), "structural")

\* the structural flag of an import function, line 504
structural_only_if_given(bag) == Has(bag, "structural")

structural_flag(bag) == Has(bag, "structural") \/ ~Has(Mark(bag, "structural"), "final")

\* the bag after lines 492-493: final() is read, and structural() when
\* final is given
after_final_check(bag) ==
    IF Has(bag, "final") THEN MarkAll(bag, <<"final", "structural">>) ELSE Mark(bag, "final")

\* the bag after line 504: structural() is read, and final() when
\* structural is absent
after_structural_flag(bag) ==
    IF Has(bag, "structural") THEN Mark(bag, "structural")
    ELSE MarkAll(bag, <<"structural", "final">>)

\* lines 492-511: the structural/final check, the ImportFunction, the audit
ForeignItemFn_final(f, wasm, catch, variadic, js_ret, kind, shim, bag, eff) ==
    IF final_structural_conflict(bag)
    THEN Bail("cannot specify both 'structural' and 'final'", SpanOf(bag, "final"),
              MarkAll(bag, <<"final", "structural">>), eff)
    ELSE check_used_then([k |-> "Function", kind |-> kind, variadic |-> variadic,
                          function |-> wasm, rust_name |-> f.ident, js_ret |-> js_ret,
                          catch |-> catch, shim |-> shim,
                          structural |-> structural_flag(after_final_check(bag))],
                         after_structural_flag(after_final_check(bag)), eff)

\* lines 477-491: the shim name, once the kind ik is known
ForeignItemFn_shim(f, wasm, catch, variadic, js_ret, ik, module, eff) ==
    IF ~ik.ok THEN Bail(ik.msg, <<"decl">>, ik.bag, eff)
    ELSE ForeignItemFn_final(f, wasm, catch, variadic, js_ret, ik.kind,
             <<"__wbg", alphanumeric(wasm.name),
               ShortHash(<<IF ik.kind.k = "Normal" THEN <<0, "n">> ELSE <<1, ik.kind.class>>,
                           f.ident, module>>)>>,
             ik.bag, eff)

\* lines 383-475: js_ret x, then operation_kind and the kind
ForeignItemFn_kind(f, wasm, catch, variadic, x, bag, module, eff) ==
    IF ~x.ok THEN Bail(x.msg, <<"ret">>, bag, eff)
    ELSE ForeignItemFn_shim(f, wasm, catch, variadic, x.ty,
             import_function_kind(f, operation_kind(bag).bag, wasm, x.ty,
                                  operation_kind(bag).kind),
             module, eff)

\* lines 371-395, w being what function_from_decl returned: catch,
\* variadic and js_ret
ForeignItemFn_wasm(f, w, module, eff) ==
    IF w.result # "Ok" THEN w
    ELSE ForeignItemFn_kind(f, w.v.function, Has(w.bag, "catch"), Has(w.bag, "variadic"),
             IF Has(w.bag, "catch") THEN extract_first_ty_param(w.v.function.ret)
             ELSE [msg |-> "", ok |-> TRUE, ty |-> w.v.function.ret],
             MarkAll(w.bag, <<"catch", "variadic">>), module, eff)

\* ConvertToAst for ForeignItemFn, lines 365-513
ForeignItemFn_convert(f, opts_, module, eff) ==
    ForeignItemFn_wasm(f, function_from_decl(f.ident, opts_, f.decl, FALSE, None, eff),
                       module, eff)

\* the used.set(true) loop over extends / vendor_prefix, lines 528-540
mark_extends_vendor(bag) ==
    [i \in DOMAIN bag |->
        IF bag[i].kw \in {"extends", "vendor_prefix"}
        THEN [bag[i] EXCEPT !.used = TRUE] ELSE bag[i]]

RECURSIVE collect(_, _, _)
\* the payloads of the entries of keyword kw, in bag order, from index i
collect(bag, kw, i) ==
    IF i > Len(bag) THEN <<>>
    ELSE IF bag[i].kw = kw THEN <<bag[i].val[1]>> \o collect(bag, kw, i + 1)
    ELSE collect(bag, kw, i + 1)

\* lines 519-553 for the bag b1 that passed assert_not_variadic
ForeignItemType_ret(t, b1, eff) ==
    check_used_then([k |-> "Type",
                     js_name |-> IF Has(b1, "js_name") THEN Val(b1, "js_name") ELSE t.ident,
                     rust_name |-> t.ident,
                     instanceof_shim |-> <<"__wbg_instanceof", t.ident, ShortHash(t.ident)>>,
                     is_type_of |-> IF Has(b1, "is_type_of") THEN Payload(b1, "is_type_of")
                                    ELSE None,
                     extends |-> collect(b1, "extends", 1),
                     vendor_prefixes |-> collect(b1, "vendor_prefix", 1)],
                    mark_extends_vendor(MarkAll(b1, <<"js_name", "is_type_of">>)), eff)

ForeignItemType_checked(t, nv, eff) ==
    IF nv.errors # <<>> THEN Err(nv.errors, nv.bag, eff)
    ELSE ForeignItemType_ret(t, nv.bag, eff)

\* ConvertToAst for ForeignItemType, lines 515-554
ForeignItemType_convert(t, attrs, eff) ==
    ForeignItemType_checked(t, assert_not_variadic(attrs), eff)

\* lines 568-586 for the bag b1 that passed assert_not_variadic
ForeignItemStatic_ret(st, js_name, b1, module, eff) ==
    check_used_then([k |-> "Static", js_name |-> js_name, rust_name |-> st.ident,
                     shim |-> <<"__wbg_static_accessor", st.ident,
                                ShortHash(<<js_name, module, st.ident>>)>>],
                    Mark(b1, "js_name"), eff)

ForeignItemStatic_checked(st, nv, module, eff) ==
    IF nv.errors # <<>> THEN Err(nv.errors, nv.bag, eff)
    ELSE ForeignItemStatic_ret(st,
             IF Has(nv.bag, "js_name") THEN Val(nv.bag, "js_name") ELSE st.ident,
             nv.bag, module, eff)

\* ConvertToAst for ForeignItemStatic, lines 556-587
ForeignItemStatic_convert(st, opts_, module, eff) ==
    IF st.mutability
    THEN Bail("cannot import mutable globals yet", <<"mutability">>, opts_, eff)
    ELSE ForeignItemStatic_checked(st, assert_not_variadic(opts_), module, eff)

\* the import put in front of the earlier ones
ForeignItem_push_front(prog, module, js_namespace, c) ==
    IF c.result # "Ok" THEN Out(c.result, c.errors, c.eff, prog, None)
    ELSE Out("Ok", <<>>, c.eff,
             [prog EXCEPT !.imports =
                 <<[kind |-> c.v, module |-> module, js_namespace |-> js_namespace]>> \o @],
             None)

\* lines 1167-1174: the import pushed when the conversion c succeeded
ForeignItem_push(prog, module, js_namespace, c) ==
    IF c.result # "Ok" THEN Out(c.result, c.errors, c.eff, prog, None)
    ELSE Out("Ok", <<>>, c.eff,
             [prog EXCEPT !.imports =
                 Append(@, [kind |-> c.v, module |-> module,
                            js_namespace |-> js_namespace])],
             None)

\* lines 1162-1166: the conversion by kind of item
ForeignItem_convert(item, item_opts, module, eff) ==
    CASE item.kind = "fn" -> ForeignItemFn_convert(item, item_opts, module, eff)
      [] item.kind = "type" -> ForeignItemType_convert(item, item_opts, eff)
      [] item.kind = "static" -> ForeignItemStatic_convert(item, item_opts, module, eff)

\* lines 1151-1166, fr being what find returned for the item
ForeignItem_found(item, prog, module, fr, eff) ==
    IF ~fr.ok THEN Out("Err", fr.errors, Plus(eff, fr.eff), prog, None)
    ELSE ForeignItem_push(prog, module,
             IF Has(fr.bag, "js_namespace") THEN Payload(fr.bag, "js_namespace") ELSE None,
             ForeignItem_convert(item, Mark(fr.bag, "js_namespace"), module,
                                 Plus(eff, fr.eff)))

\* MacroParse for ForeignItem, lines 1145-1176; k is the position of the
\* item in its block
ForeignItem_macro_parse(item, prog, module, k, eff) ==
    IF item.kind \notin {"fn", "type", "static"}
    THEN Out("Panic", <<Diag("only foreign functions/types allowed for now", <<"panic">>)>>,
             eff, prog, None)
    ELSE ForeignItem_found(item, prog, module, find(item.groups, k), eff)

\* The module of a foreign block, lines 1111-1133:
\* [module, errors, bag, inline_js] with inline_js the pool afterwards
foreign_module_first_wins(bag, inline_js) ==
    LET b == MarkAll(bag, <<"module", "inline_js", "raw_module">>) IN
    IF Has(bag, "module")
    THEN [bag |-> b, errors |-> <<>>,
          module |-> <<"Named", Val(bag, "module")>>, inline_js |-> inline_js]
    ELSE IF Has(bag, "raw_module")
    THEN [bag |-> b, errors |-> <<>>,
          module |-> <<"RawNamed", Val(bag, "raw_module")>>, inline_js |-> inline_js]
    ELSE IF Has(bag, "inline_js")
    THEN [bag |-> b, errors |-> <<>>,
          module |-> <<"Inline", Len(inline_js)>>,
          inline_js |-> Append(inline_js, Val(bag, "inline_js"))]
    ELSE [bag |-> b, errors |-> <<>>, module |-> <<"None">>, inline_js |-> inline_js]

foreign_module(bag, inline_js) ==
    LET b1 == Mark(bag, "module") IN
    IF Has(bag, "module")
    THEN LET vspan == <<"value", SpanOf(bag, "module")>>
             b2 == Mark(b1, "inline_js")
             b3 == Mark(b2, "raw_module")
         IN [bag |-> b3,
             errors |-> (IF Has(b1, "inline_js")
                         THEN <<Diag("cannot specify both 'module' and 'inline_js'", vspan)>>
                         ELSE <<>>)
                        \o (IF Has(b2, "raw_module")
                            THEN <<Diag("cannot specify both 'module' and 'raw_module'", vspan)>>
                            ELSE <<>>),
             module |-> <<"Named", Val(bag, "module")>>, inline_js |-> inline_js]
    ELSE IF Has(b1, "raw_module")
    THEN LET vspan == <<"value", SpanOf(bag, "raw_module")>>
             b2 == Mark(b1, "raw_module")
             b3 == Mark(b2, "inline_js")
         IN [bag |-> b3,
             errors |-> IF Has(b2, "inline_js")
                        THEN <<Diag("cannot specify both 'raw_module' and 'inline_js'", vspan)>>
                        ELSE <<>>,
             module |-> <<"RawNamed", Val(bag, "raw_module")>>, inline_js |-> inline_js]
    ELSE IF Has(b1, "inline_js")
    THEN [bag |-> Mark(b1, "inline_js"), errors |-> <<>>,
          module |-> <<"Inline", Len(inline_js)>>,
          inline_js |-> Append(inline_js, Val(bag, "inline_js"))]
    ELSE [bag |-> b1, errors |-> <<>>, module |-> <<"None">>, inline_js |-> inline_js]

RECURSIVE foreign_items(_, _, _, _, _, _)

\* the loop leaving at the first item that fails (`?` instead of lines
\* 1135-1137)
foreign_items_stop(items, k, module, errors, r) ==
    IF r.result # "Ok" THEN Out(r.result, errors \o r.errors, r.eff, r.prog, None)
    ELSE foreign_items(items, k + 1, r.prog, module, errors, r.eff)

\* lines 1135-1137 for the outcome r of item k, then the rest of the loop
foreign_items_next(items, k, module, errors, r) ==
    IF r.result = "Panic" THEN r
    ELSE foreign_items(items, k + 1, r.prog, module, errors \o r.errors, r.eff)

\* the item loop of lines 1134-1138, from item k on
foreign_items(items, k, prog, module, errors, eff) ==
    IF k > Len(items) THEN Out("Ok", errors, eff, prog, None)
    ELSE foreign_items_next(items, k, module, errors,
                            ForeignItem_macro_parse(items[k], prog, module, k, eff))

\* lines 1139-1141 once the items are lowered: from_vec(errors)?, the audit
ItemForeignMod_finish(m, its) ==
    IF its.result = "Panic"
    THEN Out("Panic", its.errors, its.eff, its.prog, Some([module |-> m.module]))
    ELSE IF its.errors # <<>>
    THEN Out("Err", its.errors, its.eff, its.prog, Some([module |-> m.module]))
    ELSE check_used_out(m.bag, its.eff, its.prog, Some([module |-> m.module]))

\* the items lowered without the snippet of line 1129 being stored
ItemForeignMod_items_unstored(fm, prog, e0, m, eff) ==
    ItemForeignMod_finish(m,
        foreign_items(fm.items, 1, prog, m.module, e0 \o m.errors, eff))

\* lines 1134-1141 once the module m is known
ItemForeignMod_items(fm, prog, e0, m, eff) ==
    ItemForeignMod_finish(m,
        foreign_items(fm.items, 1, [prog EXCEPT !.inline_js = m.inline_js], m.module,
                      e0 \o m.errors, eff))

\* MacroParse for ItemForeignMod, lines 1098-1143
ItemForeignMod_macro_parse(fm, prog, opts_, eff) ==
    ItemForeignMod_items(fm, prog,
        IF fm.abi \in {None, Some("C")} THEN <<>>
        ELSE <<Diag("only foreign mods with the 'C' ABI are allowed", <<"abi">>)>>,
        foreign_module(opts_, prog.inline_js), eff)

----------------------------------------------------------------------------
(* Lowering of enums *)

\* Integers wider than 31 bits are kept as two 16-bit limbs:
\* [hi, lo] stands for hi * 2^16 + lo.  A u32 has hi < 2^16; an integer
\* literal (u64 in syn) may have a larger hi.
Limb == 65536
W(hi, lo) == [hi |-> hi, lo |-> lo]
u32_max == W(Limb - 1, Limb - 1)
lt(a, b) == a.hi < b.hi \/ (a.hi = b.hi /\ a.lo < b.lo)
le(a, b) == a = b \/ lt(a, b)
\* v as u32 (truncating cast)
as_u32(v) == W(v.hi % Limb, v.lo)
\* the mathematical successor
succ(a) == IF a.lo + 1 < Limb THEN W(a.hi, a.lo + 1) ELSE W(a.hi + 1, 0)
\* u32 `+ 1`: the wrapped value and whether the addition overflowed
add_one(a) == [val |-> as_u32(succ(a)), overflow |-> a = u32_max]

RECURSIVE insert_sorted(_, _)
insert_sorted(s, v) ==
    IF s = <<>> THEN <<v>>
    ELSE IF le(Head(s), v) THEN <<Head(s)>> \o insert_sorted(Tail(s), v)
    ELSE <<v>> \o s

no_sort(s) == s

RECURSIVE sort(_)
\* values.sort(), line 1046
sort(s) == IF s = <<>> THEN <<>> ELSE insert_sorted(sort(Tail(s)), Head(s))

RECURSIVE first_gap(_, _)
\* values.windows(2).filter_map(..).next(), lines 1047-1056, from window i
\* on: the windows are visited until the first one yields Some
first_gap(values, i) ==
    IF i + 1 > Len(values) THEN [overflow |-> FALSE, found |-> FALSE, hole |-> None]
    ELSE IF add_one(values[i]).overflow /\ overflow_checks
    THEN [overflow |-> TRUE, found |-> FALSE, hole |-> None]
    ELSE IF add_one(values[i]).val # values[i + 1]
    THEN [overflow |-> FALSE, found |-> TRUE, hole |-> add_one(values[i]).val]
    ELSE first_gap(values, i + 1)

\* lines 1058-1060: the assertions on the hole
assert_hole(values, hole) ==
    IF \E i \in DOMAIN values : hole = values[i]
    THEN [msg |-> "assertion failed: hole != value", result |-> "Panic", hole |-> Some(hole)]
    ELSE [msg |-> "", result |-> "Ok", hole |-> Some(hole)]

\* lines 1047-1060 for the sorted values: g is the first gap, dflt is
\* `last + 1`, the argument of unwrap_or, which is computed in any case
hole_of(values, g, dflt) ==
    IF g.overflow \/ (dflt.overflow /\ overflow_checks)
    THEN [msg |-> "attempt to add with overflow", result |-> "Panic", hole |-> None]
    ELSE assert_hole(values, IF g.found THEN g.hole ELSE dflt.val)

hole_of_sorted(values) == hole_of(values, first_gap(values, 1), add_one(values[Len(values)]))

\* The hole of lines 1045-1060 for a non-empty list of variant values
compute_hole(vals) == hole_of_sorted(sort(vals))

\* discriminant of a variant: None, an integer literal, or another expression
IntLit(hi, lo) == Some([k |-> "int", v |-> W(hi, lo)])
ExprDisc == Some([k |-> "expr", v |-> W(0, 0)])

\* v.discriminant.is_some() != has_discriminant, line 1006
mixing_allowed(v, has_discriminant) == FALSE

mixed(v, has_discriminant) == (v.disc # None) # has_discriminant

\* the closure of lines 997-1042 for variant i (1-based here, so the
\* positional value is i - 1)
variant(e, i, has_discriminant) ==
    LET v == e.variants[i] IN
    IF ~v.unit
    THEN [ok |-> FALSE, v |-> None,
          err |-> Diag("only C-Style enums allowed with #[wasm_bindgen]", <<"variant", i>>)]
    ELSE IF mixed(v, has_discriminant)
    THEN [ok |-> FALSE, v |-> None,
          err |-> Diag("must either annotate discriminant of all variants or none",
                       <<"variant", i>>)]
    ELSE IF v.disc = None
    THEN [ok |-> TRUE, v |-> [name |-> i, value |-> as_u32(W(0, i - 1))], err |-> None]
    ELSE IF v.disc[1].k # "int"
    THEN [ok |-> FALSE, v |-> None,
          err |-> Diag("enums with #[wasm_bidngen] may only have number literal values",
                       <<"variant", i>>)]
    ELSE IF lt(u32_max, v.disc[1].v)
    THEN [ok |-> FALSE, v |-> None,
          err |-> Diag("enums with #[wasm_bindgen] can only support numbers that can be represented as u32",
                       <<"variant", i>>)]
    ELSE [ok |-> TRUE, v |-> [name |-> i, value |-> as_u32(v.disc[1].v)], err |-> None]

RECURSIVE variants_from(_, _, _, _)
\* .map(..).collect::<Result<Vec<_>, _>>(), lines 993-1043: stops at the
\* first variant that fails
variants_from(e, i, has_discriminant, acc) ==
    IF i > Len(e.variants) THEN [ok |-> TRUE, v |-> acc, err |-> None]
    ELSE LET r == variant(e, i, has_discriminant) IN
         IF ~r.ok THEN r
         ELSE variants_from(e, i + 1, has_discriminant, Append(acc, r.v))

\* lines 1062-1069: the enum pushed unless the hole computation h panicked
ItemEnum_push(e, prog, eff, variants, h) ==
    IF h.result # "Ok"
    THEN Out("Panic", <<Diag(h.msg, <<"panic">>)>>, eff, prog,
             Some([hole |-> h.hole, variants |-> variants]))
    ELSE Out("Ok", <<>>, eff,
             [prog EXCEPT !.enums =
                 Append(@, [name |-> e.ident, hole |-> h.hole[1], variants |-> variants])],
             None)

\* lines 1043-1060 for the outcome vs of the variants
ItemEnum_hole(e, prog, eff, vs) ==
    IF ~vs.ok THEN Out("Err", <<vs.err>>, eff, prog, None)
    ELSE ItemEnum_push(e, prog, eff, vs.v,
                       compute_hole([i \in DOMAIN vs.v |-> vs.v[i].value]))

\* MacroParse for ItemEnum, lines 980-1071
ItemEnum_macro_parse(e, prog, eff) ==
    IF ~e.pub
    THEN Out("Err", <<Diag("only public enums are allowed with #[wasm_bindgen]", <<"item">>)>>,
             eff, prog, None)
    ELSE IF Len(e.variants) = 0
    THEN Out("Err", <<Diag("cannot export empty enums to JS", <<"item">>)>>, eff, prog, None)
    ELSE ItemEnum_hole(e, prog, eff, variants_from(e, 1, e.variants[1].disc # None, <<>>))

----------------------------------------------------------------------------
(* Lowering of exported functions, impl blocks, methods and constants *)

\* lines 617-619: the audit after function_from_decl returned r
ItemFn_audit(r) ==
    IF r.result # "Ok" THEN r ELSE check_used_then(r.v.function, r.bag, r.eff)

\* lines 605-616
ItemFn_decl(f, nv, eff) ==
    IF nv.errors # <<>> THEN Err(nv.errors, nv.bag, eff)
    ELSE ItemFn_audit(function_from_decl(f.ident, nv.bag, f.decl, FALSE, None, eff))

\* ConvertToAst for ItemFn, lines 589-620
ItemFn_convert(f, attrs, eff) ==
    IF ~f.pub THEN Bail("can only #[wasm_bindgen] public functions", <<"item">>, attrs, eff)
    ELSE IF f.constness
    THEN Bail("can only #[wasm_bindgen] non-const functions", <<"constness">>, attrs, eff)
    ELSE IF f.unsafety
    THEN Bail("can only #[wasm_bindgen] safe functions", <<"unsafety">>, attrs, eff)
    ELSE ItemFn_decl(f, assert_not_variadic(attrs), eff)

NInputs(decl) == Len(decl.args) + (IF decl.self = "none" THEN 0 ELSE 1)

\* lines 763-772: the export pushed when the conversion c succeeded
Item_Fn_push(f, prog, start, kind, c) ==
    IF c.result # "Ok" THEN Out(c.result, c.errors, c.eff, prog, None)
    ELSE Out("Ok", <<>>, c.eff,
             [prog EXCEPT !.exports =
                 Append(@, [method_self |-> None, function |-> c.v,
                            rust_name |-> f.ident, js_class |-> None, start |-> start,
                            method_kind |-> [kind |-> kind, op |-> "Operation",
                                             is_static |-> TRUE],
                            rust_class |-> None])],
             None)

\* Item::macro_parse, the arm syn::Item::Fn, lines 732-772
Item_Fn(f, prog, bag, eff) ==
    IF Has(bag, "start") /\ f.decl.generics
    THEN Out("Err", <<Diag("the start function cannot have generics", <<"generics">>)>>,
             eff, prog, None)
    ELSE IF Has(bag, "start") /\ NInputs(f.decl) > 0
    THEN Out("Err", <<Diag("the start function cannot have arguments", <<"inputs">>)>>,
             eff, prog, None)
    ELSE Item_Fn_push(f, prog, Has(bag, "start"), operation_kind(Mark(bag, "start")).kind,
                      ItemFn_convert(f, operation_kind(Mark(bag, "start")).bag, eff))

\* lines 775: the struct pushed when the conversion c succeeded
Item_Struct_push(prog, c) ==
    IF c.result # "Ok" THEN Out(c.result, c.errors, c.eff, prog, None)
    ELSE Out("Ok", <<>>, c.eff, [prog EXCEPT !.structs = Append(@, c.v)], None)

\* Item::macro_parse, the arm syn::Item::Struct, lines 773-777
Item_Struct(s, prog, bag, eff) == Item_Struct_push(prog, ItemStruct_convert(s, bag, eff))

RECURSIVE impl_items(_, _, _, _)
\* the loop of lines 855-859 over prepare_for_impl_recursion (874-922),
\* from item i on: [result, errors, bag, markers]
impl_items(items, i, bag, acc) ==
    IF i > Len(items) THEN acc
    ELSE IF items[i] = "verbatim"
    THEN [acc EXCEPT !.result = "Panic",
                     !.errors = <<Diag("unparsed impl item?", <<"panic">>)>>]
    ELSE IF items[i] # "method"
    THEN impl_items(items, i + 1, bag,
                    [acc EXCEPT !.errors =
                        Append(@, Diag("not supported in impls with #[wasm_bindgen]",
                                       <<"item", i>>))])
    ELSE impl_items(items, i + 1, bag,
                    [acc EXCEPT !.bag = Mark(@, "js_class"),
                                !.markers = Append(@, <<"item", i>>)])

\* lines 860-863 once the items are prepared: from_vec(errors)?, the audit
ItemImpl_finish(prog, eff, r) ==
    IF r.result = "Panic" THEN Out("Panic", r.errors, eff, prog, None)
    ELSE IF r.errors # <<>> THEN Out("Err", r.errors, eff, prog, None)
    ELSE check_used_out(r.bag, eff, prog, Some([markers |-> r.markers]))

\* MacroParse for ItemImpl, lines 817-864
ItemImpl_macro_parse(im, prog, bag, eff) ==
    IF im.defaultness
    THEN Out("Err", <<Diag("#[wasm_bindgen] default impls are not supported", <<"defaultness">>)>>,
             eff, prog, None)
    ELSE IF im.unsafety
    THEN Out("Err", <<Diag("#[wasm_bindgen] unsafe impls are not supported", <<"unsafety">>)>>,
             eff, prog, None)
    ELSE IF im.trait
    THEN Out("Err", <<Diag("#[wasm_bindgen] trait impls are not supported", <<"trait">>)>>,
             eff, prog, None)
    ELSE IF im.generics
    THEN Out("Err", <<Diag("#[wasm_bindgen] generic impls aren't supported", <<"generics">>)>>,
             eff, prog, None)
    ELSE IF im.self_ty.k # "path"
    THEN Out("Err", <<Diag("unsupported self type in #[wasm_bindgen] impl", <<"self_ty">>)>>,
             eff, prog, None)
    ELSE IF ~extract_path_ident(im.self_ty).ok
    THEN Out("Err", <<Diag(extract_path_ident(im.self_ty).msg, <<"self_ty">>)>>, eff, prog, None)
    ELSE
    ItemImpl_finish(prog, eff,
        impl_items(im.items, 1, bag,
                   [bag |-> bag, errors |-> <<>>, result |-> "Ok", markers |-> <<>>]))

\* lines 950-953: the kind of an exported method
method_kind(bag, method_self) ==
    IF Has(bag, "constructor") THEN [op |-> "Constructor"]
    ELSE [kind |-> operation_kind(Mark(bag, "constructor")).kind, op |-> "Operation",
          is_static |-> method_self = None]

\* the bag after lines 950-953: operation_kind runs unless constructor
after_method_kind(bag) ==
    IF Has(bag, "constructor") THEN Mark(bag, "constructor")
    ELSE operation_kind(Mark(bag, "constructor")).bag

\* lines 950-977, r being what function_from_decl returned: the export is
\* pushed before the audit
ImplItemMethod_push(m, prog, class, js_class, r) ==
    IF r.result # "Ok" THEN Out(r.result, r.errors, r.eff, prog, None)
    ELSE check_used_out(after_method_kind(r.bag), r.eff,
             [prog EXCEPT !.exports =
                 Append(@, [method_self |-> r.v.method_self, function |-> r.v.function,
                            rust_name |-> m.ident, js_class |-> Some(js_class),
                            start |-> FALSE,
                            method_kind |-> method_kind(r.bag, r.v.method_self),
                            rust_class |-> Some(class)])],
             None)

\* lines 939-949, fr being what find returned
ImplItemMethod_found(m, prog, class, js_class, fr, eff) ==
    IF ~fr.ok THEN Out("Err", fr.errors, Plus(eff, fr.eff), prog, None)
    ELSE ImplItemMethod_push(m, prog, class, js_class,
             function_from_decl(m.ident, fr.bag, m.decl, TRUE, Some(class),
                                Plus(eff, fr.eff)))

\* MacroParse for ImplItemMethod, lines 924-978
ImplItemMethod_macro_parse(m, prog, class, js_class, eff) ==
    IF ~m.pub THEN Out("Ok", <<>>, eff, prog, None)
    ELSE IF m.defaultness
    THEN Out("Panic", <<Diag("default methods are not supported", <<"panic">>)>>,
             eff, prog, None)
    ELSE IF m.constness
    THEN Out("Err", <<Diag("can only #[wasm_bindgen] non-const functions", <<"constness">>)>>,
             eff, prog, None)
    ELSE IF m.unsafety
    THEN Out("Err", <<Diag("can only bindgen safe functions", <<"unsafety">>)>>, eff, prog, None)
    ELSE ImplItemMethod_found(m, prog, class, js_class, find(m.groups, 0), eff)

\* MacroParse for ItemConst, lines 1073-1096
ItemConst_macro_parse(c, prog, bag, eff) ==
    IF ~Has(bag, "typescript_custom_section")
    THEN Out("Err", <<Diag("#[wasm_bindgen] will not work on constants unless you are defining a #[wasm_bindgen(typescript_custom_section)].", <<"item">>)>>,
             eff, prog, None)
    ELSE IF ~c.is_str
    THEN Out("Err", <<Diag("Expected a string literal to be used with #[wasm_bindgen(typescript_custom_section)].", <<"item">>)>>,
             eff, prog, None)
    ELSE check_used_out(Mark(bag, "typescript_custom_section"), eff,
                        [prog EXCEPT !.typescript_custom_sections = Append(@, c.value)],
                        None)

----------------------------------------------------------------------------
(* Item::macro_parse, lines 725-815: the remaining arms.  `o` is the     *)
(* Option<BindgenAttrs> handed in by the caller.                          *)

\* opts.unwrap_or_default()
unwrap_or_default(o) ==
    IF o = None THEN [bag |-> <<>>, eff |-> Eff(1, 0, <<>>)]
    ELSE [bag |-> o[1], eff |-> NoEff]

\* the arm syn::Item::Impl, lines 778-782
Item_Impl(im, prog, o) ==
    ItemImpl_macro_parse(im, prog, unwrap_or_default(o).bag, unwrap_or_default(o).eff)

\* `match opts { Some(opts) => opts, None => BindgenAttrs::find(..)? }`,
\* lines 784-787 and 798-801, as the outcome of a find
opts_or_find(o, groups) ==
    IF o # None THEN [bag |-> o[1], ok |-> TRUE, errors |-> <<>>, eff |-> NoEff]
    ELSE find(groups, 0)

Item_ForeignMod_found(fm, prog, fr) ==
    IF ~fr.ok THEN Out("Err", fr.errors, fr.eff, prog, None)
    ELSE ItemForeignMod_macro_parse(fm, prog, fr.bag, fr.eff)

\* the arm syn::Item::ForeignMod, lines 783-789
Item_ForeignMod(fm, prog, o) == Item_ForeignMod_found(fm, prog, opts_or_find(o, fm.groups))

\* the arm syn::Item::Enum, lines 790-796
Item_Enum(e, prog, o) ==
    IF o # None /\ check_used(o[1]) # <<>>
    THEN Out("Err", check_used(o[1]), Audit(NoEff, o[1]), prog, None)
    ELSE ItemEnum_macro_parse(e, prog, IF o = None THEN NoEff ELSE Audit(NoEff, o[1]))

Item_Const_found(c, prog, fr) ==
    IF ~fr.ok THEN Out("Err", fr.errors, fr.eff, prog, None)
    ELSE ItemConst_macro_parse(c, prog, fr.bag, fr.eff)

\* the arm syn::Item::Const, lines 797-803
Item_Const(c, prog, o) == Item_Const_found(c, prog, opts_or_find(o, c.groups))

\* the catch-all arm, lines 804-810
Item_Other(prog) ==
    Out("Err", <<Diag("#[wasm_bindgen] can only be applied to a function, struct, enum, impl, or extern block", <<"item">>)>>,
        NoEff, prog, None)

----------------------------------------------------------------------------
(* js::binding (binding.rs).  A String that accumulates statements is kept *)
(* as the sequence of its lines, each one ended by a line feed; "" is a    *)
(* blank line.  Expressions and names are strings.                         *)

\* str::trim on such a text: the blank lines at both ends go, and so does
\* the final line feed (put back by the push_str("\n") that follows each
\* use in finalize)
RECURSIVE trim_start(_)
trim_start(t) == IF t # <<>> /\ Head(t) = "" THEN trim_start(Tail(t)) ELSE t

RECURSIVE trim_end(_)
trim_end(t) ==
    IF t # <<>> /\ t[Len(t)] = "" THEN trim_end(SubSeq(t, 1, Len(t) - 1)) ELSE t

\* a trim that keeps the blank lines
no_trim(t) == t

\* str::trim
trim(t) == trim_end(trim_start(t))

RECURSIVE join(_, _)
\* [String]::join
join(names, sep) ==
    IF names = <<>> THEN ""
    ELSE IF Len(names) = 1 THEN names[1]
    ELSE names[1] \o sep \o join(Tail(names), sep)

\* TypescriptArg, lines 60-64
TypescriptArg(ty, name, optional) == [ty |-> ty, name |-> name, optional |-> optional]

\* JsBuilder::new, lines 457-465; `panicked` records an index out of
\* bounds in one of the methods below
JsBuilder_new(args) ==
    [args |-> args, tmp |-> 0, finally |-> <<>>, prelude |-> <<>>,
     typescript |-> <<>>, panicked |-> FALSE]

\* JsBuilder::arg, lines 471-473 (idx counts from 0); "" stands for the
\* panic of an index out of bounds, which arg_ok tells apart
arg_ok(js, idx) == idx < Len(js.args)
arg(js, idx) == IF arg_ok(js, idx) THEN js.args[idx + 1] ELSE ""

\* the push shared by typescript_required and typescript_optional:
\* name = self.args[self.typescript.len()], lines 476 and 485
typescript_push(js, ty, optional) ==
    IF Len(js.typescript) >= Len(js.args) THEN [js EXCEPT !.panicked = TRUE]
    ELSE [js EXCEPT !.typescript =
              Append(@, TypescriptArg(ty, js.args[Len(js.typescript) + 1], optional))]

\* JsBuilder::typescript_required, lines 475-482
typescript_required(js, ty) == typescript_push(js, ty, FALSE)

\* JsBuilder::typescript_optional, lines 484-491
typescript_optional(js, ty) == typescript_push(js, ty, TRUE)

\* JsBuilder::prelude, lines 493-498: the lines of the trimmed text
prelude(js, text) == [js EXCEPT !.prelude = @ \o trim(text)]

\* JsBuilder::finally, lines 500-505
finally(js, text) == [js EXCEPT !.finally = @ \o trim(text)]

\* js::Context, as far as the Builder reads it: config.debug, the helpers
\* whose expose_* was called, and whether expose_handle_error succeeds
Context(debug, handle_error) ==
    [debug |-> debug, handle_error |-> handle_error, exposed |-> {}]

\* cx.expose_<helper>()
expose(c, helper) == [c EXCEPT !.exposed = @ \cup {helper}]

\* What an evaluator does for one instruction, as seen through JsBuilder:
\* the typescript descriptors it pushes (ts), the arguments it reads
\* (uses, indices for JsBuilder::arg), the text it hands to prelude()
\* and finally(), and whether it returns Ok.
Instr(ts, uses, pre, fin, ok) ==
    [ok |-> ok, finally |-> fin, prelude |-> pre, ts |-> ts, uses |-> uses]

RECURSIVE eval_ts(_, _)
eval_ts(js, ts) ==
    IF ts = <<>> THEN js
    ELSE eval_ts(IF Head(ts).optional THEN typescript_optional(js, Head(ts).ty)
                 ELSE typescript_required(js, Head(ts).ty), Tail(ts))

\* the JsBuilder after the evaluator ran one instruction
eval_js(js, instr) ==
    finally(prelude(eval_ts(js, instr.ts), instr.prelude), instr.finally)

uses_ok(js, instr) == \A k \in DOMAIN instr.uses : arg_ok(js, instr.uses[k])

\* outcome of an evaluator call: "Ok", "Err" (the `?` returns it) or "Panic"
eval_status(js, instr, after) ==
    IF ~instr.ok THEN "Err"
    ELSE IF after.panicked \/ ~uses_ok(js, instr) THEN "Panic"
    ELSE "Ok"

\* Incoming::process: Result<Vec<String>, Error>, one expression per
\* native value
Incoming_exprs(js, instr) == [k \in DOMAIN instr.uses |-> arg(js, instr.uses[k])]

\* Outgoing::process: Result<String, Error>, one host expression
Outgoing_expr(js, instr) ==
    IF Len(instr.uses) = 1 THEN arg(js, instr.uses[1])
    ELSE "lift(" \o join(Incoming_exprs(js, instr), ", ") \o ")"

\* webidl::Binding and ast::WebidlFunction as far as process reads them;
\* wasm_params is cx.module.types.get(binding.wasm_ty).params().len()
Binding(incoming, outgoing, return_via_outptr, wasm_params) ==
    [incoming |-> incoming, outgoing |-> outgoing,
     return_via_outptr |-> return_via_outptr, wasm_params |-> wasm_params]

WebidlFunction(params, result) == [result |-> result, params |-> params]

\* the `invoke` callback: the lines it appends to the prelude it is handed,
\* the callee of the invocation it returns, and whether it returns Ok
Invoke(pre, callee, ok) == [ok |-> ok, prelude |-> pre, callee |-> callee]

invoke_expr(iv, invoc_args) == iv.callee \o "(" \o join(invoc_args, ", ") \o ")"

\* Builder::new, lines 67-83
Builder_new ==
    [catch |-> FALSE, finally |-> <<>>, invoc_args |-> <<>>,
     args_prelude |-> <<>>, ret_finally |-> <<>>, function_args |-> <<>>,
     ret_prelude |-> <<>>, ret_js |-> "", ts_args |-> <<>>, ts_ret |-> None,
     constructor |-> None, method |-> None]

\* Builder::method, lines 85-87
method(b, consumed) == [b EXCEPT !.method = Some(consumed)]

\* Builder::constructor, lines 89-91
constructor(b, class) == [b EXCEPT !.constructor = Some(class)]

\* result of a Builder call: the Builder and the Context after it, the
\* status, the text or the error returned, and the names handed to the
\* evaluator of the arguments (arg_names) and of the return value (ret_args)
Done(status, text, error, b, c, arg_names, ret_args) ==
    [builder |-> b, cx |-> c, result |-> status, text |-> text, error |-> error,
     arg_names |-> arg_names, ret_args |-> ret_args]

\* Builder::catch with the flag stored whatever expose_handle_error returned
catch_unchecked(b, c, flag) ==
    IF flag /\ ~c.handle_error
    THEN Done("Err", <<>>, "expose_handle_error", [b EXCEPT !.catch = flag], c,
              <<>>, <<>>)
    ELSE Done("Ok", <<>>, "", [b EXCEPT !.catch = flag],
              IF flag THEN expose(c, "handleError") ELSE c, <<>>, <<>>)

\* Builder::catch, lines 93-99
catch(b, c, flag) ==
    IF flag /\ ~c.handle_error
    THEN Done("Err", <<>>, "expose_handle_error", b, c, <<>>, <<>>)
    ELSE Done("Ok", <<>>, "", [b EXCEPT !.catch = flag],
              IF flag THEN expose(c, "handleError") ELSE c, <<>>, <<>>)

\* `if s.len() > 0 { push_str(s.trim()); push_str("\n") }`, lines 339-342,
\* 351-354 and 363-366: a text of blank lines only leaves one blank line
block(t) == IF t = <<>> THEN <<>> ELSE IF trim(t) = <<>> THEN <<"">> ELSE trim(t)

\* lines 344-349: the invocation statement
call_stmt(b, invoc) ==
    <<(IF b.ts_ret # None THEN "const ret = " ELSE "") \o invoc \o ";">>

\* lines 356-366: the return statement or the trailing statements
ret_stmt(b) ==
    IF b.ret_js # "" THEN <<"return " \o b.ret_js \o ";">> ELSE block(b.ret_finally)

\* lines 368-370
wrap_catch(b, call) ==
    IF b.catch
    THEN <<"try {">> \o call \o <<"} catch (e) {", " handleError(e)", "}">>
    ELSE call

\* lines 376-378
wrap_debug(c, call) ==
    IF c.debug
    THEN <<"try {">> \o call \o <<"} catch (e) {", " logError(e)", "}">>
    ELSE call

\* lines 380-383
wrap_finally(b, call) ==
    IF trim(b.finally) # <<>>
    THEN <<"try {">> \o call \o <<"} finally {">> \o trim(b.finally) \o <<"}">>
    ELSE call

\* the two wrappers applied in the other order
wrap_debug_first(b, c, call) == wrap_catch(b, wrap_debug(c, call))

\* lines 368-378
wrap_catch_first(b, c, call) == wrap_debug(c, wrap_catch(b, call))

\* finalize without its asserts
asserts_off(b) == TRUE

\* the asserts of lines 357 and 359
finalize_asserts(b) == b.ret_js # "" => b.ts_ret # None /\ b.ret_finally = <<>>

\* Builder::finalize, lines 334-389, as the lines of the text it returns
finalize_text(b, c, invoc) ==
    <<"(" \o join(b.function_args, ", ") \o ") {">>
    \o block(b.args_prelude)
    \o wrap_finally(b, wrap_catch_first(b, c,
           call_stmt(b, invoc) \o block(b.ret_prelude) \o ret_stmt(b)))
    \o <<"}">>

\* Ok(self.finalize(&invoc)), lines 210, 218 and 329
finalize(b, c, invoc, arg_names, ret_args) ==
    IF ~finalize_asserts(b)
    THEN Done("Panic", <<>>, "assertion failed", b, c, arg_names, ret_args)
    ELSE Done("Ok", finalize_text(b, c, invoc), "", b, c, arg_names, ret_args)

\* the callback run a second time before the text is assembled
invoke_twice_then_finalize(b, c, iv, arg_names, ret_args) ==
    IF ~iv.ok
    THEN Done("Err", <<>>, "invoke", [b EXCEPT !.args_prelude = @ \o iv.prelude], c,
              arg_names, ret_args)
    ELSE finalize([b EXCEPT !.args_prelude = @ \o iv.prelude \o iv.prelude], c,
                  invoke_expr(iv, b.invoc_args), arg_names, ret_args)

\* let invoc = invoke(self.cx, &mut self.args_prelude, &self.invoc_args)?;
\* Ok(self.finalize(&invoc)), lines 209-210, 217-218 and 328-329
invoke_then_finalize(b, c, iv, arg_names, ret_args) ==
    IF ~iv.ok
    THEN Done("Err", <<>>, "invoke", [b EXCEPT !.args_prelude = @ \o iv.prelude], c,
              arg_names, ret_args)
    ELSE finalize([b EXCEPT !.args_prelude = @ \o iv.prelude], c,
                  invoke_expr(iv, b.invoc_args), arg_names, ret_args)

\* format!("arg{}", i), lines 158 and 181
argN(i) == "arg" \o ToString(i)

\* an iterator step that drops nothing
drop_nothing(left) == left

\* drop(webidl_params.next()): one parameter less, if there is one
drop_next(left) == IF left > 0 THEN left - 1 ELSE 0

\* the address of the return pointer, line 133
RetPtr == 8

\* lines 119 and 131-135: the iterator over webidl.params and the
\* synthesized return pointer
incoming_retptr(b, binding, webidl) ==
    IF binding.return_via_outptr # None
    THEN [b |-> [b EXCEPT !.args_prelude =
                     Append(@, "const retptr = " \o ToString(RetPtr) \o ";")],
          names |-> <<"retptr">>, left |-> drop_next(webidl.params)]
    ELSE [b |-> b, names |-> <<>>, left |-> webidl.params]

\* a consumed receiver read like a borrowed one
incoming_this_borrowed(s) ==
    IF s.b.method # None
    THEN [b |-> s.b, names |-> Append(s.names, "this.ptr"), left |-> drop_next(s.left)]
    ELSE s

\* match self.method, lines 140-152
incoming_this(s) ==
    IF s.b.method = Some(TRUE)
    THEN [b |-> [s.b EXCEPT !.args_prelude = @ \o <<"const ptr = this.ptr;", "this.ptr = 0;">>],
          names |-> Append(s.names, "ptr"), left |-> drop_next(s.left)]
    ELSE IF s.b.method = Some(FALSE)
    THEN [b |-> s.b, names |-> Append(s.names, "this.ptr"), left |-> drop_next(s.left)]
    ELSE s

\* lines 155-162: the names of the remaining parameters; list[i] panics
\* when the caller's list is too short
names_ok(n, explicit) == explicit = None \/ Len(explicit[1]) >= n

formal_names(n, explicit) ==
    [i \in 1..n |-> IF explicit = None THEN argN(i - 1) ELSE explicit[1][i]]

RECURSIVE incoming_loop(_, _, _)
RECURSIVE incoming_step(_, _, _, _)
\* for argument in binding.incoming.iter() { self.invoc_args.extend(
\* args.process(argument)?) }, lines 165-167
incoming_loop(instrs, js, invoc) ==
    IF instrs = <<>> THEN [js |-> js, status |-> "Ok", invoc |-> invoc]
    ELSE incoming_step(instrs, js, invoc, eval_js(js, Head(instrs)))

incoming_step(instrs, js, invoc, after) ==
    IF eval_status(js, Head(instrs), after) # "Ok"
    THEN [js |-> after, status |-> eval_status(js, Head(instrs), after), invoc |-> invoc]
    ELSE incoming_loop(Tail(instrs), after, invoc \o Incoming_exprs(js, Head(instrs)))

RECURSIVE outgoing_loop(_, _, _)
RECURSIVE outgoing_step(_, _, _, _)
\* for argument in binding.outgoing.iter().skip(skip) { self.invoc_args
\* .push(args.process(argument)?) }, lines 187-189
outgoing_loop(instrs, js, invoc) ==
    IF instrs = <<>> THEN [js |-> js, status |-> "Ok", invoc |-> invoc]
    ELSE outgoing_step(instrs, js, invoc, eval_js(js, Head(instrs)))

outgoing_step(instrs, js, invoc, after) ==
    IF eval_status(js, Head(instrs), after) # "Ok"
    THEN [js |-> after, status |-> eval_status(js, Head(instrs), after), invoc |-> invoc]
    ELSE outgoing_loop(Tail(instrs), after, Append(invoc, Outgoing_expr(js, Head(instrs))))

\* Iterator::skip
skip(instrs, n) == SubSeq(instrs, n + 1, Len(instrs))

\* the typescript descriptors kept as the evaluator pushed them
keep_all(ts, n) == ts

\* while self.ts_args.len() > self.function_args.len() { remove(0) },
\* lines 199-201
remove_extraneous(ts, n) ==
    IF Len(ts) > n THEN SubSeq(ts, Len(ts) - n + 1, Len(ts)) ELSE ts

\* lines 193-201: the results of the argument evaluator are saved
save_args(b, r) ==
    [b EXCEPT !.invoc_args = @ \o r.invoc,
              !.args_prelude = @ \o r.js.prelude,
              !.finally = @ \o r.js.finally,
              !.ts_args = remove_extraneous(@ \o r.js.typescript, Len(b.function_args))]

\* walrus::ValType
ValType == {"I32", "I64", "F32", "F64", "V128", "Anyref"}

\* a match without the `_ => bail!` arm
aggregate_any(ty) == TRUE

\* the arms of the matches of lines 240-266 and 300-314
aggregate_ok(ty) == ty \in {"I32", "F32", "F64"}
mem(ty) == IF ty = "I32" THEN "memi32" ELSE IF ty = "F32" THEN "memf32" ELSE "memf64"

\* every view read with 4-byte elements
size_four(ty) == 4

\* the element size of the arms of lines 247, 255 and 263
size(ty) == IF ty = "F64" THEN 8 ELSE 4

getter(ty) ==
    IF ty = "I32" THEN "getInt32Memory"
    ELSE IF ty = "F32" THEN "getFloat32Memory" ELSE "getFloat64Memory"

\* the binding emitted for every element
every_time(exposed, ty) == TRUE

\* if exposed.insert(*ty), lines 242, 250 and 258
first_of_type(exposed, ty) == ty \notin exposed

\* one pass of the loop of lines 239-268 (i counts from 0)
read_view(st, ty, i) ==
    [b |-> IF first_of_type(st.exposed, ty)
           THEN [st.b EXCEPT !.ret_prelude =
                     Append(@, "const " \o mem(ty) \o " = " \o getter(ty) \o "();")]
           ELSE st.b,
     c |-> IF first_of_type(st.exposed, ty) THEN expose(st.c, getter(ty)) ELSE st.c,
     exposed |-> st.exposed \cup {ty},
     ret_args |-> Append(st.ret_args,
                         mem(ty) \o "[retptr / " \o ToString(size(ty)) \o " + "
                         \o ToString(i) \o "]"),
     ok |-> TRUE]

RECURSIVE outptr_reads(_, _, _)
\* for (i, ty) in list.iter().enumerate(), lines 239-268; ok = FALSE is
\* the bail! of line 265
outptr_reads(list, i, st) ==
    IF i >= Len(list) THEN st
    ELSE IF ~aggregate_ok(list[i + 1]) THEN [st EXCEPT !.ok = FALSE]
    ELSE outptr_reads(list, i + 1, read_view(st, list[i + 1], i))

\* one pass of the loop of lines 299-317
write_view(st, ty, i) ==
    [b |-> [st.b EXCEPT !.ret_finally =
                Append(@, getter(ty) \o "()[arg0 / " \o ToString(size(ty)) \o " + "
                          \o ToString(i) \o "] = ret" \o ToString(i) \o ";")],
     c |-> expose(st.c, getter(ty)),
     ok |-> TRUE]

RECURSIVE outptr_writes(_, _, _)
\* for (i, ty) in list.iter().enumerate(), lines 299-317
outptr_writes(list, i, st) ==
    IF i >= Len(list) THEN st
    ELSE IF ~aggregate_ok(list[i + 1]) THEN [st EXCEPT !.ok = FALSE]
    ELSE outptr_writes(list, i + 1, write_view(st, list[i + 1], i))

\* lines 295-298: const ret{i} = {js};
ret_consts(ret_js) ==
    [k \in DOMAIN ret_js |-> "const ret" \o ToString(k - 1) \o " = " \o ret_js[k] \o ";"]

\* lines 325-329; js.typescript.remove(0) panics on an empty Vec
ret_tail(b, c, iv, arg_names, ret_args, after) ==
    IF after.typescript = <<>>
    THEN Done("Panic", <<>>, "removal index out of bounds", b, c, arg_names, ret_args)
    ELSE invoke_then_finalize([b EXCEPT !.ret_finally = @ \o after.finally,
                                        !.ret_prelude = @ \o after.prelude,
                                        !.ts_ret = Some(Head(after.typescript))],
                              c, iv, arg_names, ret_args)

\* lines 275-278
incoming_ret_eval(b, c, instr, iv, arg_names, ret_args, js, after) ==
    IF eval_status(js, instr, after) # "Ok"
    THEN Done(eval_status(js, instr, after), <<>>, "evaluator", b, c, arg_names, ret_args)
    ELSE ret_tail([b EXCEPT !.ret_js = @ \o Outgoing_expr(js, instr)], c, iv,
                  arg_names, ret_args, after)

incoming_ret_js(b, c, instr, iv, arg_names, ret_args, js) ==
    incoming_ret_eval(b, c, instr, iv, arg_names, ret_args, js, eval_js(js, instr))

\* the arm Some(list) of lines 237-269, after its loop
incoming_ret_views(binding, iv, arg_names, st) ==
    IF ~st.ok
    THEN Done("Err", <<>>, "invalid aggregate return type", st.b, st.c, arg_names,
              st.ret_args)
    ELSE incoming_ret_js(st.b, st.c, binding.outgoing[1], iv, arg_names, st.ret_args,
                         JsBuilder_new(st.ret_args))

\* lines 227-278: the return value of an adapter called by the host
incoming_ret(b, c, binding, iv, arg_names) ==
    IF binding.return_via_outptr = None
    THEN incoming_ret_js(b, c, binding.outgoing[1], iv, arg_names, <<"ret">>,
                         JsBuilder_new(<<"ret">>))
    ELSE incoming_ret_views(binding, iv, arg_names,
             outptr_reads(binding.return_via_outptr[1], 0,
                          [b |-> b, c |-> c, exposed |-> {}, ret_args |-> <<>>,
                           ok |-> TRUE]))

\* the arm Some(list) of lines 293-318, after its second loop
outgoing_ret_written(iv, arg_names, after, st) ==
    IF ~st.ok
    THEN Done("Err", <<>>, "invalid aggregate return type", st.b, st.c, arg_names,
              <<"ret">>)
    ELSE ret_tail(st.b, st.c, iv, arg_names, <<"ret">>, after)

\* match &binding.return_via_outptr, lines 292-323
outgoing_ret_store(b, c, outptr, ret_js, iv, arg_names, after) ==
    IF outptr = None
    THEN IF Len(ret_js) # 1
         THEN Done("Panic", <<>>, "assertion failed", b, c, arg_names, <<"ret">>)
         ELSE ret_tail([b EXCEPT !.ret_js = @ \o ret_js[1]], c, iv, arg_names,
                       <<"ret">>, after)
    ELSE IF Len(outptr[1]) # Len(ret_js)
    THEN Done("Panic", <<>>, "assertion failed", b, c, arg_names, <<"ret">>)
    ELSE outgoing_ret_written(iv, arg_names, after,
             outptr_writes(outptr[1], 0,
                           [b |-> [b EXCEPT !.ret_finally = @ \o ret_consts(ret_js)],
                            c |-> c, ok |-> TRUE]))

outgoing_ret_eval(b, c, binding, iv, arg_names, js, after) ==
    IF eval_status(js, binding.incoming[1], after) # "Ok"
    THEN Done(eval_status(js, binding.incoming[1], after), <<>>, "evaluator", b, c,
              arg_names, <<"ret">>)
    ELSE outgoing_ret_store(b, c, binding.return_via_outptr,
                            Incoming_exprs(js, binding.incoming[1]), iv, arg_names,
                            after)

\* lines 279-324: the return value of an adapter called by the module
outgoing_ret(b, c, binding, iv, arg_names) ==
    outgoing_ret_eval(b, c, binding, iv, arg_names, JsBuilder_new(<<"ret">>),
                      eval_js(JsBuilder_new(<<"ret">>), binding.incoming[1]))

\* the complementary instruction stream, lines 205-221
complementary(binding, incoming_args) ==
    IF incoming_args THEN binding.outgoing ELSE binding.incoming

\* lines 203-329: everything after the argument phase
process_ret(b, c, binding, incoming_args, iv, arg_names) ==
    IF Len(complementary(binding, incoming_args)) = 0
    THEN IF binding.return_via_outptr # None \/ b.constructor # None
         THEN Done("Panic", <<>>, "assertion failed", b, c, arg_names, <<>>)
         ELSE invoke_then_finalize(b, c, iv, arg_names, <<>>)
    ELSE IF Len(complementary(binding, incoming_args)) # 1
    THEN Done("Panic", <<>>, "assertion failed", b, c, arg_names, <<>>)
    ELSE IF incoming_args THEN incoming_ret(b, c, binding, iv, arg_names)
    ELSE outgoing_ret(b, c, binding, iv, arg_names)

\* the `?` of lines 166 and 188, then lines 192-201
args_done(b, c, binding, incoming_args, iv, arg_names, r) ==
    IF r.status # "Ok"
    THEN Done(r.status, <<>>, "evaluator", [b EXCEPT !.invoc_args = @ \o r.invoc], c,
              arg_names, <<>>)
    ELSE process_ret(save_args(b, r), c, binding, incoming_args, iv, arg_names)

\* lines 163-167
process_incoming_eval(b, c, binding, iv, arg_names) ==
    args_done(b, c, binding, TRUE, iv, arg_names,
              incoming_loop(binding.incoming, JsBuilder_new(arg_names), <<>>))

\* lines 118-167; s is the state after the synthetic parameters
process_incoming(c, binding, explicit, iv, s) ==
    IF ~names_ok(s.left, explicit)
    THEN Done("Panic", <<>>, "index out of bounds", s.b, c, s.names, <<>>)
    ELSE process_incoming_eval(
             [s.b EXCEPT !.function_args = @ \o formal_names(s.left, explicit)],
             c, binding, iv, s.names \o formal_names(s.left, explicit))

\* lines 168-190
process_outgoing(b, c, binding, iv, names) ==
    args_done([b EXCEPT !.function_args = @ \o names], c, binding, FALSE, iv, names,
              outgoing_loop(skip(binding.outgoing,
                                 IF binding.return_via_outptr # None THEN 1 ELSE 0),
                            JsBuilder_new(names), <<>>))

\* Builder::process, lines 101-330
process(b, c, binding, webidl, incoming_args, explicit, iv) ==
    IF incoming_args
    THEN process_incoming(IF c.debug THEN expose(c, "logError") ELSE c, binding,
                          explicit, iv,
                          incoming_this(incoming_retptr(b, binding, webidl)))
    ELSE process_outgoing(b, IF c.debug THEN expose(c, "logError") ELSE c, binding, iv,
                          [i \in 1..binding.wasm_params |-> argN(i - 1)])

\* an optional argument rendered with `?` wherever it stands
render_arg_always_omittable(a, omittable) ==
    IF a.optional THEN a.name \o "?: " \o a.ty ELSE a.name \o ": " \o a.ty

\* the arms of lines 406-415 for one argument
render_arg(a, omittable) ==
    IF a.optional
    THEN IF omittable THEN a.name \o "?: " \o a.ty
         ELSE a.name \o ": " \o a.ty \o " | undefined"
    ELSE a.name \o ": " \o a.ty

RECURSIVE render_rev(_, _)
\* for arg in self.ts_args.iter().rev(), lines 400-416: the rendered
\* arguments, the rightmost first
render_rev(args, omittable) ==
    IF args = <<>> THEN <<>>
    ELSE <<render_arg(args[Len(args)], omittable)>>
         \o render_rev(SubSeq(args, 1, Len(args) - 1),
                       omittable /\ args[Len(args)].optional)

\* Vec::reverse, line 417
reverse(v) == [i \in DOMAIN v |-> v[Len(v) + 1 - i]]

\* lines 421-431: the return type
render_ret(b) ==
    IF b.constructor # None THEN ""
    ELSE IF b.ts_ret = None THEN ": void"
    ELSE IF b.ts_ret[1].optional THEN ": " \o b.ts_ret[1].ty \o " | undefined"
    ELSE ": " \o b.ts_ret[1].ty

\* Builder::typescript_signature, lines 396-433
typescript_signature(b) ==
    "(" \o join(reverse(render_rev(b.ts_args, TRUE)), ", ") \o ")" \o render_ret(b)

----------------------------------------------------------------------------
(* State machine *)

EmptyProgram ==
    [imports |-> <<>>, inline_js |-> <<>>, enums |-> <<>>, exports |-> <<>>,
     structs |-> <<>>, typescript_custom_sections |-> <<>>]

\* no Builder call yet
NoAdapter ==
    [result |-> "Ok", op |-> "none", text |-> <<>>, error |-> "", arg_names |-> <<>>,
     ret_args |-> <<>>, input |-> None, before |-> Builder_new]

\* the collector before its first expansion
InitCollector ==
    /\ parsed = 0
    /\ checks = 0
    /\ program = EmptyProgram
    /\ opts = None
    /\ last = [opts |-> None, audited |-> <<>>, errors |-> <<>>, result |-> "Ok",
               info |-> None, op |-> "init", input |-> None]
    /\ allOk = TRUE
    /\ steps = 0

\* a fresh Builder on the Context c
InitBuilder(c) ==
    /\ builder = Builder_new
    /\ cx = c
    /\ adapter = NoAdapter

Init ==
    /\ strict \in BOOLEAN
    /\ overflow_checks \in BOOLEAN
    /\ InitCollector
    /\ InitBuilder(Context(FALSE, TRUE))

\* reset_attrs_used, lines 1294-1299, called between expansions (no bag
\* is alive then)
reset_attrs_used ==
    /\ opts = None
    /\ parsed # 0 \/ checks # 0
    /\ parsed' = 0
    /\ checks' = 0
    /\ allOk' = TRUE
    /\ last' = [opts |-> None, audited |-> <<>>, errors |-> <<>>, result |-> "Ok",
                info |-> None, op |-> "reset", input |-> None]
    /\ UNCHANGED <<strict, overflow_checks, program, opts, steps, bvars>>

\* The caller parses the macro's own attribute tokens into the bag it hands
\* to Item::macro_parse: impl Parse for BindgenAttrs, lines 189-200.
Parse(toks) ==
    /\ opts = None
    /\ LET pr == parse(toks, 0, 0) IN
       /\ parsed' = parsed + 1
       /\ opts' = IF pr.ok THEN Some(pr.bag) ELSE None
       /\ allOk' = (allOk /\ pr.ok)
       /\ last' = [opts |-> None, audited |-> <<>>, errors |-> pr.errors,
                   result |-> IF pr.ok THEN "Ok" ELSE "Err",
                   info |-> None, op |-> "parse", input |-> Some(toks)]
       \* a syntax error ends the expansion of this item
       /\ steps' = IF pr.ok THEN steps ELSE steps + 1
    /\ UNCHANGED <<strict, overflow_checks, checks, program, bvars>>

\* A lowering ran with outcome `out`
Apply(op, input, out) ==
    /\ parsed' = parsed + out.eff.p
    /\ checks' = checks + out.eff.c
    /\ program' = out.prog
    /\ opts' = None
    /\ last' = [opts |-> opts, audited |-> out.eff.audited, errors |-> out.errors,
                result |-> out.result,
                info |-> out.info, op |-> op, input |-> Some(input)]
    /\ allOk' = (allOk /\ out.result = "Ok")
    /\ steps' = steps + 1
    /\ UNCHANGED <<strict, overflow_checks, bvars>>

LowerFn(f) ==
    Apply("fn", f, Item_Fn(f, program, unwrap_or_default(opts).bag,
                           unwrap_or_default(opts).eff))

LowerStruct(s) ==
    Apply("struct", s, Item_Struct(s, program, unwrap_or_default(opts).bag,
                                   unwrap_or_default(opts).eff))

LowerImpl(im) == Apply("impl", im, Item_Impl(im, program, opts))

LowerForeignMod(fm) == Apply("foreign_mod", fm, Item_ForeignMod(fm, program, opts))

LowerEnum(e) == Apply("enum", e, Item_Enum(e, program, opts))

LowerConst(c) == Apply("const", c, Item_Const(c, program, opts))

LowerOther == Apply("other", "item", Item_Other(program))

\* expansion of the class marker on a method of an impl block
LowerImplMethod(m) ==
    /\ opts = None
    /\ Apply("method", m, ImplItemMethod_macro_parse(m, program, "S", "S", NoEff))

----------------------------------------------------------------------------
(* Declarations fed to the collector in Spec *)

T(kw) == Tok(kw, None)
Paren(toks) == Group("paren", toks)

PlainDecl == FnDecl(FALSE, FALSE, FALSE, "none", <<>>, None)

\* attribute lists of the macro invocation itself
TopToks ==
    {<<>>, <<T("variadic")>>, <<T("start")>>, <<T("typescript_custom_section")>>,
     <<TV("js_name", "a"), TV("js_name", "b")>>, <<TV("inline_js", "a")>>,
     <<T("frob")>>}

ItemFn(pub, constness, unsafety, decl) ==
    [ident |-> "f", decl |-> decl, pub |-> pub, constness |-> constness,
     unsafety |-> unsafety]

Fns ==
    {ItemFn(TRUE, FALSE, FALSE, PlainDecl),
     ItemFn(FALSE, FALSE, FALSE, PlainDecl),
     ItemFn(TRUE, FALSE, TRUE, PlainDecl),
     ItemFn(TRUE, FALSE, FALSE, FnDecl(FALSE, TRUE, FALSE, "none", <<>>, None)),
     ItemFn(TRUE, FALSE, FALSE, FnDecl(FALSE, FALSE, FALSE, "none", <<Ident("T")>>, Some(Ident("T"))))}

Field(pub, name, groups) == [groups |-> groups, name |-> name, pub |-> pub]
ItemStruct(generics, fields) == [ident |-> "S", generics |-> generics, fields |-> fields]

FieldGroups ==
    {<<>>, <<Paren(<<T("skip")>>)>>, <<Paren(<<T("readonly"), T("readonly")>>)>>,
     <<Paren(<<T("variadic")>>)>>, <<Group("bare", <<>>), Paren(<<T("readonly")>>)>>,
     <<Group("malformed", <<>>)>>, <<Paren(<<T("frob")>>)>>}

Structs ==
    {ItemStruct(TRUE, <<>>), ItemStruct(FALSE, <<>>),
     ItemStruct(FALSE, <<Field(FALSE, Some("c"), <<Paren(<<T("skip")>>)>>)>>)}
    \cup {ItemStruct(FALSE, <<Field(TRUE, Some("a"), <<>>), Field(TRUE, None, g)>>) :
            g \in FieldGroups}

ItemImpl(defaultness, unsafety, trait, generics, self_ty, items) ==
    [generics |-> generics, self_ty |-> self_ty, items |-> items,
     unsafety |-> unsafety, defaultness |-> defaultness, trait |-> trait]

Impls ==
    {ItemImpl(FALSE, FALSE, FALSE, FALSE, Ident("S"), <<"method", "method">>),
     ItemImpl(FALSE, FALSE, FALSE, FALSE, Ident("S"), <<"const", "method", "type">>),
     ItemImpl(FALSE, FALSE, TRUE, FALSE, Ident("S"), <<>>),
     ItemImpl(FALSE, FALSE, FALSE, FALSE, TPath(FALSE, 2, "S", NoArgs), <<"method">>),
     ItemImpl(FALSE, FALSE, FALSE, FALSE, Ident("S"), <<"verbatim">>)}

Method(pub, defaultness, constness, unsafety, groups, decl) ==
    [groups |-> groups, ident |-> "m", decl |-> decl, pub |-> pub,
     constness |-> constness, unsafety |-> unsafety, defaultness |-> defaultness]

Methods ==
    {Method(FALSE, FALSE, FALSE, FALSE, <<Paren(<<T("frob")>>)>>, PlainDecl),
     Method(TRUE, FALSE, TRUE, FALSE, <<>>, PlainDecl),
     Method(TRUE, TRUE, FALSE, FALSE, <<>>, PlainDecl),
     Method(TRUE, FALSE, FALSE, FALSE, <<Paren(<<T("constructor"), T("getter")>>)>>,
            FnDecl(FALSE, FALSE, FALSE, "none", <<>>, Some(Ident("Self")))),
     Method(TRUE, FALSE, FALSE, FALSE, <<Paren(<<T("getter")>>)>>,
            FnDecl(FALSE, FALSE, FALSE, "ref", <<>>, Some(Ident("T")))),
     Method(TRUE, FALSE, FALSE, FALSE, <<Paren(<<T("skip")>>)>>,
            FnDecl(FALSE, FALSE, FALSE, "value", <<>>, None)),
     Method(TRUE, FALSE, FALSE, FALSE, <<>>,
            FnDecl(FALSE, FALSE, TRUE, "refmut", <<>>, None))}

ForeignFn(groups, decl) == [groups |-> groups, ident |-> "g", kind |-> "fn", decl |-> decl]
ForeignType(groups) == [groups |-> groups, ident |-> "Ty", kind |-> "type"]
ForeignStatic(groups, mutability) ==
    [groups |-> groups, ident |-> "st", kind |-> "static", mutability |-> mutability]
ForeignMacro == [groups |-> <<>>, ident |-> "mac", kind |-> "macro"]
ItemForeignMod(abi, groups, items) == [groups |-> groups, items |-> items, abi |-> abi]

ForeignMods ==
    {ItemForeignMod(None, <<>>, <<>>),
     ItemForeignMod(Some("Rust"), <<Paren(<<TV("module", "m"), TV("raw_module", "m")>>)>>,
                    <<ForeignType(<<>>)>>),
     ItemForeignMod(Some("C"), <<Paren(<<TV("module", "m")>>)>>,
                    <<ForeignFn(<<Paren(<<T("structural"), T("final")>>)>>, PlainDecl),
                      ForeignStatic(<<>>, FALSE)>>),
     ItemForeignMod(Some("C"), <<>>,
                    <<ForeignFn(<<Paren(<<T("catch"), T("variadic")>>)>>, PlainDecl),
                      ForeignType(<<Paren(<<TV("extends", "a"), TV("extends", "b")>>)>>)>>),
     ItemForeignMod(None, <<Group("malformed", <<>>)>>, <<ForeignStatic(<<>>, TRUE)>>),
     ItemForeignMod(None, <<>>, <<ForeignType(<<Paren(<<T("readonly")>>)>>)>>),
     ItemForeignMod(None, <<>>, <<ForeignMacro>>)}

Variant(unit, disc) == [disc |-> disc, unit |-> unit]
ItemEnum(pub, variants) == [ident |-> "E", pub |-> pub, variants |-> variants]

Enums ==
    {ItemEnum(FALSE, <<Variant(TRUE, None)>>), ItemEnum(TRUE, <<>>),
     ItemEnum(TRUE, <<Variant(TRUE, None), Variant(TRUE, None)>>),
     ItemEnum(TRUE, <<Variant(TRUE, IntLit(0, 1)), Variant(TRUE, IntLit(0, 3))>>),
     ItemEnum(TRUE, <<Variant(TRUE, IntLit(0, 0)), Variant(TRUE, None)>>)}

ItemConst(groups, is_str) == [groups |-> groups, value |-> "ts", is_str |-> is_str]

Consts ==
    {ItemConst(<<>>, TRUE), ItemConst(<<Paren(<<T("typescript_custom_section")>>)>>, TRUE),
     ItemConst(<<Paren(<<T("typescript_custom_section"), T("skip")>>)>>, TRUE),
     ItemConst(<<Paren(<<T("typescript_custom_section")>>)>>, FALSE)}

----------------------------------------------------------------------------
(* Spec: sequences of lowerings into one Program *)

Next ==
    \/ reset_attrs_used
    \/ steps < MaxSteps /\ \E toks \in TopToks : Parse(toks)
    \/ steps < MaxSteps /\ \E f \in Fns : LowerFn(f)
    \/ steps < MaxSteps /\ \E s \in Structs : LowerStruct(s)
    \/ steps < MaxSteps /\ \E im \in Impls : LowerImpl(im)
    \/ steps < MaxSteps /\ \E m \in Methods : LowerImplMethod(m)
    \/ steps < MaxSteps /\ \E fm \in ForeignMods : LowerForeignMod(fm)
    \/ steps < MaxSteps /\ \E e \in Enums : LowerEnum(e)
    \/ steps < MaxSteps /\ \E c \in Consts : LowerConst(c)
    \/ steps < MaxSteps /\ LowerOther

Spec == Init /\ [][Next]_vars

----------------------------------------------------------------------------
(* SpecAttrs: accessor calls on a parsed bag *)

\* all attribute lists of at most MaxGroupLen tokens over the pool P
ToksOver(P) == UNION {[1..n -> P] : n \in 0..MaxGroupLen}

AccessToks ==
    {TV("js_name", "a"), TV("js_name", "b"), TV("module", "a"), T("skip"),
     Tok("getter", None), TV("getter", "a")}

AccessKws == {"js_name", "module", "skip", "getter", "catch"}

\* one call of the accessor of keyword kw (methods! @method, lines 95-140)
\* on the bag held in opts
Access(kw) ==
    /\ opts # None
    /\ steps < MaxAccesses
    /\ LET a == Accessor(opts[1], kw) IN
       /\ opts' = Some(a.bag)
       /\ last' = [opts |-> opts, audited |-> <<>>, errors |-> <<>>, result |-> "Ok",
                   info |-> Some([ret |-> a.ret]), op |-> "access", input |-> Some(kw)]
    /\ steps' = steps + 1
    /\ UNCHANGED <<strict, overflow_checks, parsed, checks, program, allOk, bvars>>

NextAttrs ==
    \/ steps = 0 /\ \E toks \in ToksOver(AccessToks) : Parse(toks)
    \/ \E kw \in AccessKws : Access(kw)

SpecAttrs == Init /\ [][NextAttrs]_vars

----------------------------------------------------------------------------
(* SpecEnum: one enum lowered into a fresh Program *)

VariantPool ==
    {Variant(TRUE, d) : d \in {None, IntLit(0, 0), IntLit(0, 1), IntLit(0, 2), IntLit(0, 3),
                               IntLit(Limb - 1, Limb - 1), IntLit(Limb, 0), ExprDisc}}
    \cup {Variant(FALSE, None)}

EnumPool ==
    {ItemEnum(TRUE, vs) : vs \in UNION {[1..n -> VariantPool] : n \in 0..MaxVariants}}
    \cup {ItemEnum(FALSE, <<Variant(TRUE, None)>>)}

NextEnum == steps = 0 /\ \E e \in EnumPool : LowerEnum(e)

SpecEnum == Init /\ [][NextEnum]_vars

----------------------------------------------------------------------------
(* SpecForeign: one foreign block lowered into a fresh Program *)

BlockToks == {TV("module", "m"), TV("raw_module", "r"), TV("inline_js", "c"), T("skip")}

ImportToks == {T("structural"), T("final"), T("method"), T("catch")}

ImportDecls ==
    {PlainDecl,
     FnDecl(FALSE, FALSE, FALSE, "none", <<TRef(FALSE, Ident("T"))>>,
            Some(TPath(FALSE, 1, "Result", Angle(<<GType(Ident("T"))>>)))),
     FnDecl(FALSE, FALSE, FALSE, "none", <<Ident("T")>>, Some(Ident("T")))}

\* blocks that vary the block's own attributes
BlocksByAttrs ==
    {ItemForeignMod(abi, <<Paren(toks)>>, items) :
        abi \in {None, Some("Rust")}, toks \in ToksOver(BlockToks),
        items \in {<<>>, <<ForeignFn(<<>>, PlainDecl)>>}}

\* blocks that vary their single item
BlocksByItem ==
    {ItemForeignMod(Some("C"), <<Paren(<<TV("module", "m")>>)>>, <<it>>) :
        it \in {ForeignFn(<<Paren(toks)>>, d) : toks \in ToksOver(ImportToks), d \in ImportDecls}
               \cup {ForeignType(<<Paren(<<T("final")>>)>>), ForeignStatic(<<>>, TRUE),
                     ForeignStatic(<<Paren(<<TV("js_name", "a")>>)>>, FALSE), ForeignMacro}}

\* blocks without attributes of their own, for the bag the caller parsed
BlocksPlain ==
    {ItemForeignMod(abi, <<>>, items) :
        abi \in {None, Some("Rust")}, items \in {<<>>, <<ForeignFn(<<>>, PlainDecl)>>}}

NextForeign ==
    \/ steps = 0 /\ \E toks \in ToksOver(BlockToks) : Parse(toks)
    \/ steps = 0 /\ opts # None /\ \E fm \in BlocksPlain : LowerForeignMod(fm)
    \/ steps = 0 /\ opts = None
       /\ \E fm \in BlocksByAttrs \cup BlocksByItem : LowerForeignMod(fm)

SpecForeign == Init /\ [][NextForeign]_vars

----------------------------------------------------------------------------
(* Properties of the audit counters (Spec) *)

\* bags that are alive and not yet audited: the one the caller parsed
Live == IF opts = None THEN 0 ELSE 1

\* the step is a call of a lowering handler
IsLowering == steps' = steps + 1 /\ last'.op \notin {"parse", "access"}

\* how far the step moved `parsed - checks` away from the balance in which
\* every bag alive before the call has been audited
Drift == (parsed' - checks') - (parsed - checks - Live)

\* C1: starting from reset_attrs_used, after any sequence of lowerings that
\* all returned Ok the two counters agree (up to the bag the caller has
\* parsed and not yet handed over), so assert_all_attrs_checked passes.
C1_CountersBalanced == allOk => parsed = checks + Live

C1_Witness ==
    /\ allOk /\ opts = None /\ steps = MaxSteps
    /\ last.op \notin {"init", "reset", "parse"}
    /\ parsed >= 3 /\ parsed = checks

\* C2 as stated: whatever its outcome, a lowering call has run check_used
\* once on every bag constructed, i.e. it leaves parsed - checks unchanged.
C2_Original == [][IsLowering => Drift = 0]_vars

\* C2: a lowering call that returns Ok has run check_used exactly once on
\* every bag constructed, the caller's included, so it leaves
\* parsed - checks unchanged; a call that does not return Ok never audits
\* a bag twice but may leave bags unaudited (parsed - checks can only grow).
C2_Amended ==
    [][IsLowering => /\ Drift >= 0
                     /\ last'.result = "Ok" => Drift = 0]_vars

C2_Witness ==
    /\ ~allOk /\ parsed > checks /\ opts = None
    /\ last.op = "foreign_mod" /\ last.result = "Ok" /\ Len(last.audited) >= 3

\* C3: in strict mode, every attribute of a bag that is not consumed when
\* check_used runs yields the diagnostic "unused #[wasm_bindgen] attribute"
\* at its span, so a declaration is accepted only if every attribute of
\* every audited bag has been read by its handler.
C3_StrictUnusedRejected ==
    strict =>
        \A i \in DOMAIN last.audited : \A j \in DOMAIN last.audited[i] :
            ~last.audited[i][j].used =>
                /\ last.result = "Err"
                /\ Diag(UnusedMsg, last.audited[i][j].span) \in Range(last.errors)

\* a keyword given twice: the handler reads the first, the second is unused
C3_Witness ==
    /\ strict /\ last.result = "Err"
    /\ \E i \in DOMAIN last.audited : \E j, k \in DOMAIN last.audited[i] :
          /\ j < k
          /\ last.audited[i][j].kw = last.audited[i][k].kw
          /\ last.audited[i][j].used
          /\ ~last.audited[i][k].used

----------------------------------------------------------------------------
(* Properties of the accessors (SpecAttrs) *)

\* C4: the accessor of keyword kw returns the payload of the first entry of
\* that keyword and sets the consumed flag of that entry only; with no such
\* entry it returns None and changes nothing; no flag is ever cleared.
C4_AccessorFrame ==
    [][(last'.op = "access" /\ steps' = steps + 1) =>
        LET kw == last'.input[1]
            b == opts[1]
            b2 == opts'[1]
            ret == last'.info[1].ret
            hits == {i \in DOMAIN b : b[i].kw = kw}
        IN /\ DOMAIN b2 = DOMAIN b
           /\ \A i \in DOMAIN b : b[i].used => b2[i].used
           /\ IF hits = {}
              THEN ret = None /\ b2 = b
              ELSE LET f == CHOOSE i \in hits : \A j \in hits : i <= j IN
                   /\ ret = Some(b[f].val)
                   /\ b2[f] = [b[f] EXCEPT !.used = TRUE]
                   /\ \A i \in DOMAIN b : i # f => b2[i] = b[i]]_vars

\* the keyword read occurs twice: only its first entry is consumed
C4_Witness ==
    /\ last.op = "access" /\ opts # None
    /\ \E i, j \in DOMAIN opts[1] :
          /\ i < j
          /\ opts[1][i].kw = last.input[1] /\ opts[1][j].kw = last.input[1]
          /\ opts[1][i].used /\ ~opts[1][j].used
          /\ last.info[1].ret = Some(opts[1][i].val)

----------------------------------------------------------------------------
(* Properties of enums (SpecEnum) *)

EnumAccepted == last.op = "enum" /\ last.result = "Ok"
PushedEnum == program.enums[Len(program.enums)]
ValuesOf(en) == {en.variants[i].value : i \in DOMAIN en.variants}

\* smallest non-negative integer that is not in the set V of values
Mex(V) ==
    CHOOSE k \in 0..Cardinality(V) :
        W(0, k) \notin V /\ \A j \in 0..(k - 1) : W(0, j) \in V

C6_Original ==
    (EnumAccepted /\ Cardinality(ValuesOf(PushedEnum)) = Len(PushedEnum.variants)) =>
        \E v \in ValuesOf(PushedEnum) :
            /\ succ(v) \notin ValuesOf(PushedEnum)
            /\ \A u \in ValuesOf(PushedEnum) : lt(u, v) => succ(u) \in ValuesOf(PushedEnum)
            /\ PushedEnum.hole = succ(v)

\* C7 as stated: for every enum that passes variant validation, duplicates
\* included, the hole differs from every variant value: the assertion
\* hole != value never fails and the pushed enum's hole is not a value.
C7_Original ==
    last.op = "enum" =>
        /\ last.result = "Panic" => last.errors[1].msg # "assertion failed: hole != value"
        /\ last.result = "Ok" => PushedEnum.hole \notin ValuesOf(PushedEnum)

MixedEnum(e) ==
    \E i, j \in DOMAIN e.variants :
        e.variants[i].disc = None /\ e.variants[j].disc # None

\* C8: an enum in which some variants have an explicit discriminant and
\* others have none is rejected with a diagnostic; in an accepted enum
\* every value is the variant's literal (all explicit) or its position
\* (none explicit).
C8_NoMixedDiscriminants ==
    last.op = "enum" =>
        LET e == last.input[1] IN
        /\ MixedEnum(e) => last.result = "Err" /\ last.errors # <<>>
        /\ last.result = "Ok" =>
              /\ Len(PushedEnum.variants) = Len(e.variants)
              /\ \A i \in DOMAIN e.variants :
                    PushedEnum.variants[i].value =
                        IF e.variants[1].disc = None THEN W(0, i - 1)
                        ELSE e.variants[i].disc[1].v

\* explicit, explicit, implicit: rejected at the third variant
C8_Witness ==
    /\ last.op = "enum" /\ last.result = "Err"
    /\ LET e == last.input[1] IN
       /\ e.pub /\ Len(e.variants) = 3
       /\ \A i \in DOMAIN e.variants : e.variants[i].unit
       /\ e.variants[1].disc = IntLit(0, 1)
       /\ e.variants[2].disc = IntLit(0, 2)
       /\ e.variants[3].disc = None
    /\ last.errors =
          <<Diag("must either annotate discriminant of all variants or none", <<"variant", 3>>)>>

----------------------------------------------------------------------------
(* Properties of foreign blocks (SpecForeign) *)

ModuleKws == {"module", "raw_module", "inline_js"}

ConflictMsgs ==
    {"cannot specify both 'module' and 'inline_js'",
     "cannot specify both 'module' and 'raw_module'",
     "cannot specify both 'raw_module' and 'inline_js'"}

\* keywords written on the block that was lowered last
BlockToksOf ==
    IF last.opts # None THEN [i \in DOMAIN last.opts[1] |-> Tok(last.opts[1][i].kw, last.opts[1][i].val)]
    ELSE IF last.input[1].groups = <<>> THEN <<>>
    ELSE last.input[1].groups[1].toks

ModulePresent == {k \in ModuleKws : \E i \in DOMAIN BlockToksOf : BlockToksOf[i].kw = k}

FirstValOf(toks, k) ==
    toks[CHOOSE i \in DOMAIN toks :
            toks[i].kw = k /\ \A j \in 1..(i - 1) : toks[j].kw # k].val[1]

ConflictDiags == {i \in DOMAIN last.errors : last.errors[i].msg \in ConflictMsgs}

\* C9: whenever the lowering of a foreign block returns, a block whose
\* attributes contain two of module, raw_module and inline_js yields a
\* conflict diagnostic; with at most one of them there is no conflict
\* diagnostic and the block's module is Named, RawNamed, Inline (the pool
\* index of the stored snippet) or None accordingly.
C9_ModuleConflicts ==
    (last.op = "foreign_mod" /\ last.result # "Panic") =>
        LET present == ModulePresent
            module == last.info[1].module
        IN /\ Cardinality(present) >= 2 => last.result = "Err" /\ ConflictDiags # {}
           /\ Cardinality(present) <= 1 => ConflictDiags = {}
           /\ present = {} => module = <<"None">>
           /\ present = {"module"} => module = <<"Named", FirstValOf(BlockToksOf, "module")>>
           /\ present = {"raw_module"} =>
                 module = <<"RawNamed", FirstValOf(BlockToksOf, "raw_module")>>
           /\ present = {"inline_js"} =>
                 /\ module[1] = "Inline"
                 /\ module[2] + 1 \in DOMAIN program.inline_js
                 /\ program.inline_js[module[2] + 1] = FirstValOf(BlockToksOf, "inline_js")

\* inline_js written first, raw_module second
C9_Witness ==
    /\ last.op = "foreign_mod" /\ last.result = "Err"
    /\ Len(BlockToksOf) >= 2
    /\ BlockToksOf[1].kw = "inline_js"
    /\ \E i \in DOMAIN last.errors :
          last.errors[i].msg = "cannot specify both 'raw_module' and 'inline_js'"

\* the block lowered last holds one imported function with one attribute
\* group
FnBlock ==
    /\ last.op = "foreign_mod"
    /\ Len(last.input[1].items) = 1
    /\ last.input[1].items[1].kind = "fn"
    /\ Len(last.input[1].items[1].groups) = 1

FnToks == last.input[1].items[1].groups[1].toks
Given(kw) == \E i \in DOMAIN FnToks : FnToks[i].kw = kw
Times(kw) == Cardinality({i \in DOMAIN FnToks : FnToks[i].kw = kw})

NotStructuralOrFinal(t) == t.kw \notin {"structural", "final"}

\* the outcome for the same block when the function carries neither
\* structural nor final: the other checks
WithoutStructuralFinal ==
    Item_ForeignMod(
        [last.input[1] EXCEPT !.items =
            <<[last.input[1].items[1] EXCEPT !.groups =
                 <<Paren(SelectSeq(FnToks, NotStructuralOrFinal))>>]>>],
        EmptyProgram, last.opts)

\* C10: an imported function is rejected with "cannot specify both
\* 'structural' and 'final'" exactly when both attributes are given (the
\* other checks passing, the audit of attributes given twice included), and
\* an accepted one is structural exactly when final is absent.
C10_StructuralFinal ==
    FnBlock =>
        LET both == Given("structural") /\ Given("final")
            others == WithoutStructuralFinal.result = "Ok"
            conflict == \E i \in DOMAIN last.errors :
                            last.errors[i].msg = "cannot specify both 'structural' and 'final'"
        IN /\ both => last.result = "Err"
           /\ (both /\ others) => conflict
           /\ ~both => ~conflict
           /\ (~both /\ others /\ (~strict \/ (Times("structural") <= 1 /\ Times("final") <= 1)))
                 => last.result = "Ok"
           /\ last.result = "Ok" =>
                 program.imports[Len(program.imports)].kind.structural = ~Given("final")

\* a final method import: accepted and not structural
C10_Witness ==
    /\ FnBlock /\ last.result = "Ok"
    /\ Given("final") /\ Given("method")
    /\ ~program.imports[Len(program.imports)].kind.structural

----------------------------------------------------------------------------
(* SpecExport: one export declaration whose attributes may hold `variadic` *)

ExportToks == ToksOver({T("variadic"), TV("js_name", "a"), T("skip")})

\* the #[wasm_bindgen(..)] attributes of a field or of a method
ExportGroups == {<<>>} \cup {<<Paren(t)>> : t \in ExportToks}

ExportStructs ==
    {ItemStruct(FALSE, <<>>)}
    \cup {ItemStruct(FALSE, <<Field(TRUE, Some("a"), g)>>) : g \in ExportGroups}

ExportMethods ==
    {Method(TRUE, FALSE, FALSE, FALSE, g, d) :
        g \in ExportGroups,
        d \in {PlainDecl, FnDecl(FALSE, FALSE, FALSE, "ref", <<>>, None)}}

NextExport ==
    \/ steps = 0 /\ \E toks \in ExportToks : Parse(toks)
    \/ steps = 0 /\ \E f \in Fns : LowerFn(f)
    \/ steps = 0 /\ \E s \in ExportStructs : LowerStruct(s)
    \/ steps = 0 /\ \E m \in ExportMethods : LowerImplMethod(m)

SpecExport == Init /\ [][NextExport]_vars

\* `variadic` is among the attributes of the macro invocation
VariadicOnItem ==
    /\ last.opts # None
    /\ \E i \in DOMAIN last.opts[1] : last.opts[1][i].kw = "variadic"

\* `variadic` is in one of the #[wasm_bindgen(..)] attributes `groups`
VariadicIn(groups) ==
    \E g \in DOMAIN groups :
        /\ groups[g].shape = "paren"
        /\ \E i \in DOMAIN groups[g].toks : groups[g].toks[i].kw = "variadic"

\* the export just lowered carries `variadic`: a function or a struct on
\* the macro invocation, a public field or a public method on itself
VariadicExport ==
    \/ last.op \in {"fn", "struct"} /\ VariadicOnItem
    \/ /\ last.op = "struct"
       /\ \E k \in DOMAIN last.input[1].fields :
             /\ last.input[1].fields[k].pub
             /\ VariadicIn(last.input[1].fields[k].groups)
    \/ last.op = "method" /\ last.input[1].pub /\ VariadicIn(last.input[1].groups)

\* C11: every export declaration that carries `variadic` (function,
\* method of an inherent impl, struct, struct field) is rejected with a
\* diagnostic, in strict and in non-strict mode alike.
C11_Original == VariadicExport => last.result # "Ok" /\ last.errors # <<>>

----------------------------------------------------------------------------
(* The Builder as a state machine: its setters, then one process call *)

\* a Builder call returned d
Call(op, input, d) ==
    /\ builder' = d.builder
    /\ cx' = d.cx
    /\ adapter' = [result |-> d.result, op |-> op, text |-> d.text,
                   error |-> d.error, arg_names |-> d.arg_names, ret_args |-> d.ret_args,
                   input |-> Some(input), before |-> builder]
    /\ UNCHANGED cvars

\* process consumes the draft: the setters come before it
Drafting == adapter.op # "process"

SetMethod(consumed) ==
    /\ Drafting /\ builder.method = None
    /\ Call("method", consumed,
            Done("Ok", <<>>, "", method(builder, consumed), cx, <<>>, <<>>))

SetConstructor(class) ==
    /\ Drafting /\ builder.constructor = None
    /\ Call("constructor", class,
            Done("Ok", <<>>, "", constructor(builder, class), cx, <<>>, <<>>))

SetCatch(flag) == Drafting /\ Call("catch", flag, catch(builder, cx, flag))

Process(binding, webidl, incoming_args, explicit, iv) ==
    /\ Drafting
    /\ Call("process",
            [binding |-> binding, webidl |-> webidl, incoming_args |-> incoming_args,
             explicit_arg_names |-> explicit, invoke |-> iv],
            process(builder, cx, binding, webidl, incoming_args, explicit, iv))

Signature ==
    /\ adapter.op # "typescript_signature"
    /\ Call("typescript_signature", "self",
            Done("Ok", <<typescript_signature(builder)>>, "", builder, cx,
                 adapter.arg_names, adapter.ret_args))

----------------------------------------------------------------------------
(* Bindings fed to the Builder in SpecBuilder *)

MaxParams == 2       \* host-visible parameters of one adapter
MaxOutptr == 2       \* native values returned through the return pointer

\* what the evaluators do for the kinds of instruction used below, reading
\* the arguments from index i on: "get" passes one value through, "opt"
\* converts an optional value with a temporary that is freed afterwards,
\* "pair" stands for one host value made of two native ones, "silent"
\* pushes no typescript descriptor, "fail" returns an error
Kinds == {"get", "opt", "pair", "silent", "fail"}

InstrOf(kind, uses) ==
    IF kind = "get" THEN Instr(<<[ty |-> "number", optional |-> FALSE]>>, uses, <<>>, <<>>, TRUE)
    ELSE IF kind = "opt"
    THEN Instr(<<[ty |-> "string", optional |-> TRUE]>>, uses,
               <<"", "const tmp = pass();", "">>, <<"free(tmp);", "">>, TRUE)
    ELSE IF kind = "pair"
    THEN Instr(<<[ty |-> "string", optional |-> FALSE]>>, uses, <<>>, <<>>, TRUE)
    ELSE IF kind = "silent" THEN Instr(<<>>, uses, <<>>, <<>>, TRUE)
    ELSE Instr(<<>>, uses, <<>>, <<>>, FALSE)

\* native values of one instruction
Width(kind) == IF kind = "pair" THEN 2 ELSE 1

RECURSIVE Widths(_)
Widths(kinds) == IF kinds = <<>> THEN 0 ELSE Width(Head(kinds)) + Widths(Tail(kinds))

\* instructions lowering host arguments i, i+1, ..: each reads one host
\* value and yields Width native values
RECURSIVE Lower(_, _)
Lower(kinds, i) ==
    IF kinds = <<>> THEN <<>>
    ELSE <<InstrOf(Head(kinds), [k \in 1..Width(Head(kinds)) |-> i])>>
         \o Lower(Tail(kinds), i + 1)

\* instructions lifting native parameters i, i+1, ..: each reads Width
\* native values
RECURSIVE Lift(_, _)
Lift(kinds, i) ==
    IF kinds = <<>> THEN <<>>
    ELSE <<InstrOf(Head(kinds), [k \in 1..Width(Head(kinds)) |-> i + k - 1])>>
         \o Lift(Tail(kinds), i + Width(Head(kinds)))

KindSeqs(P) == UNION {[1..n -> P] : n \in 0..MaxParams}

Outptrs(P) == {None} \cup {Some(l) : l \in UNION {[1..n -> P] : n \in 1..MaxOutptr}}

\* number of leading synthetic parameters of an adapter called by the host
Synthetic(outptr) ==
    (IF outptr = None THEN 0 ELSE 1) + (IF builder.method = None THEN 0 ELSE 1)

\* number of native values returned
Returned(outptr) == IF outptr = None THEN 1 ELSE Len(outptr[1])

\* An export: the host calls; the arguments (one "get" per synthetic
\* parameter, then kinds) are lowered by the Incoming evaluator and the
\* return value (ret: a kind, or None) is lifted by the Outgoing evaluator
ExportBinding(outptr, kinds, ret) ==
    Binding(Lower([s \in 1..Synthetic(outptr) |-> "get"] \o kinds, 0),
            IF ret = None THEN <<>>
            ELSE <<InstrOf(ret[1], [k \in 1..Returned(outptr) |-> k - 1])>>,
            outptr, 0)

ExportFunction(outptr, kinds, ret) ==
    WebidlFunction(Synthetic(outptr) + Len(kinds), ret # None)

\* An import: the module calls; the native parameters (the return pointer
\* first, if any) are lifted by the Outgoing evaluator and the return value
\* is lowered by the Incoming evaluator
ImportBinding(outptr, kinds, ret) ==
    Binding(IF ret = None THEN <<>>
            ELSE <<InstrOf(ret[1], [k \in 1..Returned(outptr) |-> 0])>>,
            (IF outptr = None THEN <<>> ELSE <<InstrOf("get", <<0>>)>>)
            \o Lift(kinds, IF outptr = None THEN 0 ELSE 1),
            outptr,
            (IF outptr = None THEN 0 ELSE 1) + Widths(kinds))

ImportFunction(kinds, ret) == WebidlFunction(Len(kinds), ret # None)

Invokes == {Invoke(<<>>, "wasm.f", TRUE), Invoke(<<"const x = 1;">>, "wasm.f", TRUE),
            Invoke(<<>>, "wasm.f", FALSE)}

\* explicit_arg_names: none, enough names, too few names
Explicits == {None, Some(<<"x", "y", "z", "w">>), Some(<<"x">>)}

\* a return value, or none (only without a return pointer)
Rets(outptr, P) == {Some(k) : k \in P} \cup (IF outptr = None THEN {None} ELSE {})

NextBuilder ==
    \/ \E consumed \in BOOLEAN : SetMethod(consumed)
    \/ SetConstructor("S")
    \/ \E flag \in BOOLEAN : SetCatch(flag)
    \/ \E outptr \in {None, Some(<<"I32", "I32">>)}, kinds \in KindSeqs(Kinds),
          explicit \in Explicits :
          \E ret \in Rets(outptr, {"get"}) :
             Process(ExportBinding(outptr, kinds, ret), ExportFunction(outptr, kinds, ret),
                     TRUE, explicit, Invoke(<<>>, "wasm.f", TRUE))
    \/ \E outptr \in {None, Some(<<"I32", "I32">>)}, kinds \in KindSeqs(Kinds) :
          \E ret \in Rets(outptr, {"get"}) :
             Process(ImportBinding(outptr, kinds, ret), ImportFunction(kinds, ret),
                     FALSE, None, Invoke(<<>>, "f", TRUE))
    \/ \E outptr \in Outptrs({"I32", "F32", "F64", "I64"}), iv \in Invokes :
          \E ret \in Rets(outptr, Kinds) :
             Process(ExportBinding(outptr, <<"get">>, ret),
                     ExportFunction(outptr, <<"get">>, ret), TRUE, None, iv)
    \/ \E outptr \in Outptrs({"I32", "F32", "F64", "I64"}), iv \in Invokes :
          \E ret \in Rets(outptr, Kinds) :
             Process(ImportBinding(outptr, <<"get">>, ret),
                     ImportFunction(<<"get">>, ret), FALSE, None, iv)

InitAdapter ==
    /\ strict = FALSE
    /\ overflow_checks = FALSE
    /\ InitCollector
    /\ \E debug \in BOOLEAN, handle_error \in BOOLEAN :
          InitBuilder(Context(debug, handle_error))

SpecBuilder == InitAdapter /\ [][NextBuilder]_vars

----------------------------------------------------------------------------
(* Claims about the Builder *)

\* process returned Ok
Emitted == adapter.op = "process" /\ adapter.result = "Ok"
ProcessInput == adapter.input[1]

EmptyReturn == builder.ts_ret = None /\ builder.ret_js = "" /\ builder.ret_finally = <<>>
ReturnsJs == builder.ret_js # "" /\ builder.ret_finally = <<>>
ReturnsFinally == builder.ret_finally # <<>> /\ builder.ret_js = ""

\* C12: after every process call that returns Ok, exactly one of the three
\* return shapes holds: (a) no ts_ret, no ret_js and no ret_finally;
\* (b) ret_js non-empty and ret_finally empty; (c) ret_finally non-empty
\* and ret_js empty.
C12_ReturnShape ==
    Emitted =>
        /\ EmptyReturn \/ ReturnsJs \/ ReturnsFinally
        /\ ~(EmptyReturn /\ ReturnsJs)
        /\ ~(EmptyReturn /\ ReturnsFinally)
        /\ ~(ReturnsJs /\ ReturnsFinally)

\* an import whose return value is stored through the return pointer, the
\* evaluator having asked for a cleanup as well
C12_Witness ==
    /\ Emitted
    /\ ~ProcessInput.incoming_args
    /\ ProcessInput.binding.return_via_outptr # None
    /\ ProcessInput.binding.incoming[1].finally # <<>>
    /\ ReturnsFinally

\* C13: after the argument phase of process, in incoming-args and in
\* outgoing-args mode (return_via_outptr present or not, one instruction
\* covering several native parameters or not), ts_args has as many entries
\* as function_args.
C13_Original == Emitted => Len(builder.ts_args) = Len(builder.function_args)

\* the layers of an adapter, as they must appear in its text
CatchOn == builder.catch
DebugOn == cx.debug
FinallyOn == trim(builder.finally) # <<>>
Layers == (IF CatchOn THEN 1 ELSE 0) + (IF DebugOn THEN 1 ELSE 0) + (IF FinallyOn THEN 1 ELSE 0)

Header == "(" \o join(builder.function_args, ", ") \o ") {"

Statements ==
    <<(IF builder.ts_ret # None THEN "const ret = " ELSE "")
      \o invoke_expr(ProcessInput.invoke, builder.invoc_args) \o ";">>
    \o block(builder.ret_prelude)
    \o (IF builder.ret_js # "" THEN <<"return " \o builder.ret_js \o ";">>
        ELSE block(builder.ret_finally))

\* the closing parts, the innermost first
Closings ==
    (IF CatchOn THEN <<"} catch (e) {", " handleError(e)", "}">> ELSE <<>>)
    \o (IF DebugOn THEN <<"} catch (e) {", " logError(e)", "}">> ELSE <<>>)
    \o (IF FinallyOn THEN <<"} finally {">> \o trim(builder.finally) \o <<"}">> ELSE <<>>)

\* C14: in the text of finalize the regions nest, innermost first, as the
\* invocation/ret_prelude/return statements, a try/catch with handleError
\* iff catch is on, a try/catch with logError iff debug is on, a
\* try/finally iff the trimmed finally text is non-empty; the args_prelude
\* comes before all of them, inside none.
C14_Nesting ==
    Emitted =>
        adapter.text = <<Header>> \o block(builder.args_prelude)
                       \o [i \in 1..Layers |-> "try {"]
                       \o Statements \o Closings \o <<"}">>

\* all three layers around an adapter that has an args_prelude
C14_Witness ==
    /\ Emitted /\ CatchOn /\ DebugOn /\ FinallyOn
    /\ builder.args_prelude # <<>>
    /\ builder.ret_js # ""

\* the helpers the Builder itself emits references to
Helpers == {"handleError", "logError", "getInt32Memory", "getFloat32Memory",
            "getFloat64Memory"}

\* the line mentions the helper h
Mentions(line, h) ==
    \E i \in 1..(Len(line) - Len(h) + 1) : SubSeq(line, i, i + Len(h) - 1) = h

Referenced(h) == \E k \in DOMAIN adapter.text : Mentions(adapter.text[k], h)

\* C15: a helper referenced by the adapter text that process returns
\* (handleError, logError, getInt32Memory, getFloat32Memory,
\* getFloat64Memory) was registered on the Context by its expose_* call,
\* whatever the order of catch(true)/catch(false) and the mode; and a
\* catch(true) whose expose_handle_error fails leaves the catch flag as it
\* was.
C15_HelpersExposed ==
    /\ Emitted => \A h \in Helpers : Referenced(h) => h \in cx.exposed
    /\ adapter.op = "catch" /\ adapter.result = "Err" =>
           builder.catch = adapter.before.catch

\* an adapter that references handleError, logError and a memory view
C15_Witness ==
    /\ Emitted
    /\ Referenced("handleError") /\ Referenced("logError")
    /\ Referenced("getFloat64Memory")

\* the names process hands to the evaluator of the arguments, as the claim
\* gives them
HasOutptr == ProcessInput.binding.return_via_outptr # None
MethodMode == adapter.before.method # None
Remaining ==
    LET n == ProcessInput.webidl.params
        d == (IF HasOutptr THEN 1 ELSE 0) + (IF MethodMode THEN 1 ELSE 0)
    IN IF n > d THEN n - d ELSE 0

ExpectedFormals ==
    [i \in 1..Remaining |->
        IF ProcessInput.explicit_arg_names = None THEN "arg" \o ToString(i - 1)
        ELSE ProcessInput.explicit_arg_names[1][i]]

ExpectedArgNames ==
    (IF HasOutptr THEN <<"retptr">> ELSE <<>>)
    \o (IF adapter.before.method = Some(TRUE) THEN <<"ptr">>
        ELSE IF adapter.before.method = Some(FALSE) THEN <<"this.ptr">> ELSE <<>>)
    \o ExpectedFormals

\* process ran in incoming-args mode and got through naming the parameters
NamedIncoming ==
    /\ adapter.op = "process" /\ ProcessInput.incoming_args
    /\ adapter.error # "index out of bounds"

\* C16: in incoming-args mode function_args has one name per WebIDL
\* parameter left after dropping a leading one when return_via_outptr is
\* present and a further one in method mode; the names are arg0..argN-1 or
\* the first N caller-supplied names; the evaluator is handed `retptr` (if
\* outptr), `ptr` or `this.ptr` (if method), then these names; and with
\* return_via_outptr the args_prelude begins with `const retptr = 8;`.
C16_IncomingNames ==
    NamedIncoming =>
        /\ builder.function_args = ExpectedFormals
        /\ adapter.arg_names = ExpectedArgNames
        /\ HasOutptr => /\ builder.args_prelude # <<>>
                        /\ builder.args_prelude[1] = "const retptr = 8;"

\* a method with a return pointer and caller-supplied names
C16_Witness ==
    /\ Emitted /\ ProcessInput.incoming_args
    /\ HasOutptr /\ MethodMode
    /\ ProcessInput.explicit_arg_names # None
    /\ Remaining = 2

\* position of the receiver among the names handed to the evaluator
ReceiverAt == IF HasOutptr THEN 2 ELSE 1

\* position of the first line of the text equal to `line` (0 if none)
LineAt(line) ==
    IF \E k \in DOMAIN adapter.text : adapter.text[k] = line
    THEN CHOOSE k \in DOMAIN adapter.text :
            adapter.text[k] = line /\ \A j \in 1..(k - 1) : adapter.text[j] # line
    ELSE 0

\* C17: in incoming-args mode with method(true) the args_prelude holds
\* `const ptr = this.ptr;` immediately followed by `this.ptr = 0;`, before
\* every prelude line of the evaluator and before the invocation, and the
\* receiver is handed to the evaluator as `ptr`; with method(false) the
\* receiver is handed over as `this.ptr` and no emitted statement assigns
\* to this.ptr.
C17_Receiver ==
    Emitted /\ ProcessInput.incoming_args =>
        /\ adapter.before.method = Some(TRUE) =>
              /\ Len(builder.args_prelude) > ReceiverAt
              /\ builder.args_prelude[ReceiverAt] = "const ptr = this.ptr;"
              /\ builder.args_prelude[ReceiverAt + 1] = "this.ptr = 0;"
              /\ HasOutptr => builder.args_prelude[1] = "const retptr = 8;"
              /\ LineAt("const ptr = this.ptr;") > 0
              /\ LineAt("this.ptr = 0;") = LineAt("const ptr = this.ptr;") + 1
              /\ LineAt("this.ptr = 0;") < LineAt(Statements[1])
              /\ adapter.arg_names[ReceiverAt] = "ptr"
              /\ builder.invoc_args[ReceiverAt] = "ptr"
        /\ adapter.before.method = Some(FALSE) =>
              /\ adapter.arg_names[ReceiverAt] = "this.ptr"
              /\ builder.invoc_args[ReceiverAt] = "this.ptr"
              /\ \A k \in DOMAIN adapter.text : ~Mentions(adapter.text[k], "this.ptr =")

\* a consuming method whose argument evaluator emitted prelude lines
C17_Witness ==
    /\ Emitted /\ ProcessInput.incoming_args
    /\ adapter.before.method = Some(TRUE)
    /\ Len(builder.args_prelude) > ReceiverAt + 1
    /\ LineAt("const tmp = pass();") > LineAt("this.ptr = 0;")

----------------------------------------------------------------------------
(* SpecSignature: typescript_signature on Builders holding any ts_args *)

MaxTsArgs == 3       \* typescript descriptors of one adapter

TsTypes == {"number", "string"}

TsLists ==
    UNION {{[i \in 1..n |-> TypescriptArg(t[i], "arg" \o ToString(i - 1), o[i])] :
               t \in [1..n -> TsTypes], o \in [1..n -> BOOLEAN]} : n \in 0..MaxTsArgs}

TsRets == {None, Some(TypescriptArg("number", "ret", FALSE)),
           Some(TypescriptArg("string", "ret", TRUE))}

InitSignature ==
    /\ strict = FALSE
    /\ overflow_checks = FALSE
    /\ InitCollector
    /\ cx = Context(FALSE, TRUE)
    /\ adapter = NoAdapter
    /\ \E args \in TsLists, r \in TsRets, class \in {None, Some("S")} :
          builder = [Builder_new EXCEPT !.ts_args = args, !.ts_ret = r,
                                        !.constructor = class]

NextSignature == Signature

SpecSignature == InitSignature /\ [][NextSignature]_vars

\* the rendering of the i-th argument, as the claim gives it
ExpectedArg(i) ==
    LET a == builder.ts_args[i] IN
    IF ~a.optional THEN a.name \o ": " \o a.ty
    ELSE IF \A j \in (i + 1)..Len(builder.ts_args) : builder.ts_args[j].optional
    THEN a.name \o "?: " \o a.ty
    ELSE a.name \o ": " \o a.ty \o " | undefined"

ExpectedRet ==
    IF builder.constructor # None THEN ""
    ELSE IF builder.ts_ret = None THEN ": void"
    ELSE IF builder.ts_ret[1].optional THEN ": " \o builder.ts_ret[1].ty \o " | undefined"
    ELSE ": " \o builder.ts_ret[1].ty

\* C18: typescript_signature renders each argument in its position as
\* `name?: T` iff it is optional and so is every argument to its right,
\* `name: T | undefined` iff it is optional and an argument to its right is
\* required, `name: T` iff it is required; the return type is left out iff
\* a constructor class is set, else it is `void` without ts_ret,
\* `T | undefined` for an optional ts_ret, else `T`.
C18_Signature ==
    adapter.op = "typescript_signature" =>
        adapter.text =
            <<"(" \o join([i \in DOMAIN builder.ts_args |-> ExpectedArg(i)], ", ")
              \o ")" \o ExpectedRet>>

\* optional, required, optional
C18_Witness ==
    /\ adapter.op = "typescript_signature"
    /\ Len(builder.ts_args) = 3
    /\ builder.ts_args[1].optional /\ ~builder.ts_args[2].optional
    /\ builder.ts_args[3].optional
    /\ builder.ts_ret # None /\ builder.constructor = None

\* the typed views of the return-pointer ABI: local name, helper and
\* element width in bytes (Int32Array, Float32Array, Float64Array)
ViewOf(t) == IF t = "I32" THEN "memi32" ELSE IF t = "F32" THEN "memf32" ELSE "memf64"
HelperOf(t) ==
    IF t = "I32" THEN "getInt32Memory"
    ELSE IF t = "F32" THEN "getFloat32Memory" ELSE "getFloat64Memory"
Sizeof(t) == IF t \in {"I32", "F32"} THEN 4 ELSE 8
ElementWidth(view) == IF view \in {"memi32", "memf32"} THEN 4 ELSE 8

OutList == ProcessInput.binding.return_via_outptr[1]

\* element of the view of t read for index i (from 0) when retptr is RetPtr
ElementIndex(t, i) == RetPtr \div Sizeof(t) + i

\* number of lines of ret_prelude that bind the view of t
Bindings(t) ==
    Cardinality({k \in DOMAIN builder.ret_prelude :
                    builder.ret_prelude[k]
                        = "const " \o ViewOf(t) \o " = " \o HelperOf(t) \o "();"})

\* the return value of an export was read through the return pointer
ReadThroughOutptr == Emitted /\ ProcessInput.incoming_args /\ HasOutptr

\* C19: in incoming-args mode with return_via_outptr = [t0..tk-1] the i-th
\* input of the Outgoing evaluator is `view[retptr / sizeof(t_i) + i]` on
\* the view whose element width is sizeof(t_i) (4 for i32/f32, 8 for f64),
\* which with retptr = 8 is the bytes [8 + i*sizeof(t_i),
\* 8 + (i+1)*sizeof(t_i)); for [I32, I32] these are memi32[2] and
\* memi32[3]; and each view is bound (`const memi32 = getInt32Memory();`)
\* exactly once per distinct type.
C19_OutptrReads ==
    ReadThroughOutptr =>
        /\ RetPtr = 8
        /\ Len(adapter.ret_args) = Len(OutList)
        /\ \A k \in DOMAIN OutList :
              /\ adapter.ret_args[k]
                    = ViewOf(OutList[k]) \o "[retptr / " \o ToString(Sizeof(OutList[k]))
                      \o " + " \o ToString(k - 1) \o "]"
              /\ ElementWidth(ViewOf(OutList[k])) = Sizeof(OutList[k])
              /\ RetPtr % Sizeof(OutList[k]) = 0
              /\ ElementIndex(OutList[k], k - 1) * ElementWidth(ViewOf(OutList[k]))
                    = RetPtr + (k - 1) * Sizeof(OutList[k])
        /\ OutList = <<"I32", "I32">> =>
              /\ ElementIndex("I32", 0) = 2
              /\ ElementIndex("I32", 1) = 3
        /\ \A t \in {"I32", "F32", "F64"} :
              Bindings(t) = IF \E k \in DOMAIN OutList : OutList[k] = t THEN 1 ELSE 0

\* the pair [I32, I32], read from memi32
C19_Witness ==
    /\ ReadThroughOutptr
    /\ OutList = <<"I32", "I32">>
    /\ adapter.ret_args = <<"memi32[retptr / 4 + 0]", "memi32[retptr / 4 + 1]">>
    /\ builder.ret_prelude = <<"const memi32 = getInt32Memory();">>

\* return_via_outptr holds a type other than i32, f32 and f64
BadOutptr == HasOutptr /\ \E k \in DOMAIN OutList : OutList[k] \notin {"I32", "F32", "F64"}

ArgStream ==
    IF ProcessInput.incoming_args THEN ProcessInput.binding.incoming
    ELSE ProcessInput.binding.outgoing
RetStream ==
    IF ProcessInput.incoming_args THEN ProcessInput.binding.outgoing
    ELSE ProcessInput.binding.incoming

\* process got as far as marshalling the return value through the return
\* pointer: the arguments were evaluated, and in outgoing-args mode (where
\* the evaluator runs before the list is looked at) so was the return value
Marshalled ==
    /\ adapter.op = "process"
    /\ \A k \in DOMAIN ArgStream : ArgStream[k].ok
    /\ ProcessInput.explicit_arg_names = None
    /\ Len(RetStream) = 1
    /\ ~ProcessInput.incoming_args => RetStream[1].ok

\* C20: when return_via_outptr holds a type other than i32, f32 or f64 and
\* the return value is marshalled, process returns the error 'invalid
\* aggregate return type' and no adapter text, in both modes; with only
\* i32/f32/f64 in the list this error is never returned.
C20_InvalidAggregate ==
    /\ Marshalled /\ BadOutptr =>
           /\ adapter.result = "Err"
           /\ adapter.error = "invalid aggregate return type"
           /\ adapter.text = <<>>
    /\ adapter.op = "process" /\ ~BadOutptr =>
           adapter.error # "invalid aggregate return type"

\* an import returning [I32, I64]
C20_Witness ==
    /\ Marshalled /\ BadOutptr
    /\ ~ProcessInput.incoming_args
    /\ OutList = <<"I32", "I64">>
    /\ adapter.error = "invalid aggregate return type"

\* process ended by unwinding instead of returning
Panicked == adapter.op = "process" /\ adapter.result = "Panic"

\* the caller's name list is shorter than the parameters left to name
\* (list[i], line 157)
ShortNames ==
    /\ ProcessInput.incoming_args
    /\ ProcessInput.explicit_arg_names # None
    /\ Len(ProcessInput.explicit_arg_names[1]) = 1
    /\ ProcessInput.webidl.params >= 3

\* a constructor without return value (assert of lines 208 and 216)
VoidConstructor ==
    /\ adapter.before.constructor # None
    /\ complementary(ProcessInput.binding, ProcessInput.incoming_args) = <<>>
    /\ ProcessInput.binding.return_via_outptr = None

\* C21: for every binding, mode, constructor/method/catch setting,
\* explicit_arg_names list and evaluator result, process ends by returning
\* Ok(text) or Err: none of its assertions or index accesses (lines 157,
\* 207-220, 294, 320, 327, 357-359) fails.
C21_Original == adapter.op = "process" => adapter.result \in {"Ok", "Err"}

\* the panics that need no help from an evaluator
C21_ShortNames == adapter.op = "process" /\ ShortNames => adapter.result # "Panic"
C21_VoidConstructor == adapter.op = "process" /\ VoidConstructor => adapter.result # "Panic"

----------------------------------------------------------------------------
(* SpecStruct: one struct lowered into a fresh Program *)

MaxFields == 3       \* fields of a struct in SpecStruct

StructToks == {<<>>, <<TV("js_name", "J")>>}

\* attributes of a public field, and of a field the loop never looks at
PubGroups ==
    {<<>>, <<Paren(<<T("skip")>>)>>, <<Paren(<<T("readonly")>>)>>,
     <<Paren(<<T("skip"), T("readonly")>>)>>, <<Paren(<<T("frob")>>)>>}
PrivGroups == {<<>>, <<Paren(<<T("skip"), T("frob")>>)>>}

FieldShapes ==
    {<<TRUE, g>> : g \in PubGroups} \cup {<<FALSE, g>> : g \in PrivGroups}

FieldNames == <<"a", "b", "c", "d">>

\* a braced struct (fields named by position) or a tuple struct
StructOf(named, shapes) ==
    ItemStruct(FALSE, [i \in DOMAIN shapes |->
                          Field(shapes[i][1],
                                IF named THEN Some(FieldNames[i]) ELSE None,
                                shapes[i][2])])

StructPool ==
    {StructOf(named, shapes) :
        named \in BOOLEAN, shapes \in UNION {[1..n -> FieldShapes] : n \in 0..MaxFields}}
    \cup {ItemStruct(TRUE, <<>>)}

InitStruct ==
    /\ strict \in BOOLEAN
    /\ overflow_checks = FALSE
    /\ InitCollector
    /\ InitBuilder(Context(FALSE, TRUE))

NextStruct ==
    \/ steps = 0 /\ opts = None /\ \E toks \in StructToks : Parse(toks)
    \/ steps = 0 /\ \E s \in StructPool : LowerStruct(s)

SpecStruct == InitStruct /\ [][NextStruct]_vars

----------------------------------------------------------------------------
(* Properties of struct fields (SpecStruct) *)

\* the field carries the attribute kw in one of its #[wasm_bindgen(..)]
FieldHas(f, kw) ==
    \E g \in DOMAIN f.groups :
        f.groups[g].shape = "paren" /\ \E t \in DOMAIN f.groups[g].toks :
                                           f.groups[g].toks[t].kw = kw

\* the name a field is exported under: its identifier, or its position
FieldName(s, i) ==
    IF s.fields[i].name # None THEN s.fields[i].name[1]
    ELSE <<"0", "1", "2", "3", "4">>[i]

RECURSIVE ExportedFields(_, _, _)
\* what the source declares to be exported, from field i on: the `pub`
\* fields without `skip`, in source order
ExportedFields(s, jn, i) ==
    IF i > Len(s.fields) THEN <<>>
    ELSE (IF s.fields[i].pub /\ ~FieldHas(s.fields[i], "skip")
          THEN <<[name |-> FieldName(s, i),
                  struct_name |-> s.ident,
                  readonly |-> FieldHas(s.fields[i], "readonly"),
                  getter |-> struct_field_get(jn, FieldName(s, i)),
                  setter |-> struct_field_set(jn, FieldName(s, i))]>>
          ELSE <<>>) \o ExportedFields(s, jn, i + 1)

RECURSIVE FieldBags(_, _)
\* bags built for the fields from i on when every public field is visited:
\* find's own and one per parenthesised attribute
FieldBags(s, i) ==
    IF i > Len(s.fields) THEN 0
    ELSE (IF s.fields[i].pub
          THEN 1 + Cardinality({g \in DOMAIN s.fields[i].groups :
                                    s.fields[i].groups[g].shape = "paren"})
          ELSE 0) + FieldBags(s, i + 1)

\* the entries of field i in the bags check_used consumed
AuditedOf(i) ==
    {e \in UNION {Range(last.audited[k]) : k \in DOMAIN last.audited} : e.span[1] = i}

StructAccepted == last.op = "struct" /\ last.result = "Ok"
PushedStruct == program.structs[Len(program.structs)]
LoweredStruct == last.input[1]
\* the js_name the caller's bag gives, else the identifier
StructJsName ==
    IF last.opts # None /\ \E i \in DOMAIN last.opts[1] : last.opts[1][i].kw = "js_name"
    THEN "J" ELSE LoweredStruct.ident

\* C22: for every accepted struct the emitted fields are exactly the `pub`
\* fields without `skip`, in source order, each with the getter and setter
\* symbols struct_field_get/set(js_name, field name) and readonly iff
\* `readonly` is present; a skipped field's `skip` is marked consumed; no
\* bag is built for a non-public field.
C22_StructFields ==
    StructAccepted =>
        /\ Len(program.structs) = 1
        /\ PushedStruct.fields = ExportedFields(LoweredStruct, StructJsName, 1)
        /\ \A i \in DOMAIN LoweredStruct.fields :
              /\ LoweredStruct.fields[i].pub /\ FieldHas(LoweredStruct.fields[i], "skip")
                    => \E e \in AuditedOf(i) : e.kw = "skip" /\ e.used
              /\ ~LoweredStruct.fields[i].pub => AuditedOf(i) = {}
        /\ parsed = 1 + FieldBags(LoweredStruct, 1)

\* an accepted struct with a skipped field between two exported ones, the
\* second of them readonly
C22_Witness ==
    /\ StructAccepted
    /\ Len(LoweredStruct.fields) = 3
    /\ \A i \in 1..3 : LoweredStruct.fields[i].pub
    /\ FieldHas(LoweredStruct.fields[2], "skip")
    /\ ~FieldHas(LoweredStruct.fields[1], "skip")
    /\ FieldHas(LoweredStruct.fields[3], "readonly")
    /\ ~FieldHas(LoweredStruct.fields[3], "skip")
    /\ Len(PushedStruct.fields) = 2

----------------------------------------------------------------------------
(* Properties of the Program's sequences (Spec) *)

\* a is an initial segment of b
IsPrefix(a, b) == Len(a) <= Len(b) /\ a = SubSeq(b, 1, Len(a))

RECURSIVE IsSubseq(_, _)
\* a is b with some elements left out
IsSubseq(a, b) ==
    IF a = <<>> THEN TRUE
    ELSE IF b = <<>> THEN FALSE
    ELSE IF Head(a) = Head(b) THEN IsSubseq(Tail(a), Tail(b))
    ELSE IsSubseq(a, Tail(b))

ProgramSeqs ==
    {"exports", "imports", "structs", "enums", "typescript_custom_sections", "inline_js"}

\* the imports the step added, by the identifier they were declared with
NewImportNames ==
    [i \in 1..(Len(program'.imports) - Len(program.imports)) |->
        program'.imports[Len(program.imports) + i].kind.rust_name]

\* the identifiers of the items of the block, in source order
BlockIdents(fm) == [i \in DOMAIN fm.items |-> fm.items[i].ident]

\* C23: each sequence of the Program (exports, imports, structs, enums,
\* typescript custom sections, inline_js) lists its items in lowering
\* order: a lowering only appends to them, it never removes, reorders or
\* rewrites an entry; the imports one foreign block adds appear in the
\* source order of its items.
C23_AppendOnly ==
    [][/\ \A k \in ProgramSeqs : IsPrefix(program[k], program'[k])
       /\ last'.op = "foreign_mod" /\ steps' = steps + 1
             => IsSubseq(NewImportNames, BlockIdents(last'.input[1]))]_vars

\* two blocks lowered one after the other, each adding two imports
C23_Witness ==
    /\ last.op = "foreign_mod"
    /\ steps = 2
    /\ Len(program.imports) = 4
    /\ program.imports[1].kind.rust_name # program.imports[2].kind.rust_name

----------------------------------------------------------------------------
(* SpecBlock: one foreign block or impl block with several items *)

MaxItems == 3        \* items of a block in SpecBlock

\* imported items that are accepted, rejected, or of an unsupported kind
SiblingItems ==
    {ForeignFn(<<>>, PlainDecl),
     ForeignFn(<<Paren(<<T("structural"), T("final")>>)>>, PlainDecl),
     ForeignType(<<>>), ForeignType(<<Paren(<<T("variadic")>>)>>),
     ForeignStatic(<<>>, FALSE), ForeignStatic(<<>>, TRUE), ForeignMacro}

SiblingBlocks ==
    {ItemForeignMod(abi, groups, items) :
        abi \in {Some("C"), Some("Rust")},
        groups \in {<<>>, <<Paren(<<TV("module", "m"), TV("raw_module", "r")>>)>>,
                    <<Paren(<<TV("inline_js", "c")>>)>>},
        items \in UNION {[1..n -> SiblingItems] : n \in 0..MaxItems}}

SiblingImpls ==
    {ItemImpl(FALSE, FALSE, FALSE, FALSE, Ident("S"), items) :
        items \in UNION {[1..n -> {"method", "const", "type", "macro"}] : n \in 0..MaxItems}}

NextBlock ==
    \/ steps = 0 /\ opts = None /\ \E fm \in SiblingBlocks : LowerForeignMod(fm)
    \/ steps = 0 /\ opts = None /\ \E im \in SiblingImpls : LowerImpl(im)

SpecBlock == Init /\ [][NextBlock]_vars

----------------------------------------------------------------------------
(* Properties of sibling items (SpecBlock) *)

\* the declaration is one the collector rejects: a function both
\* structural and final, a variadic type, a mutable static
ItemRejected(it) ==
    \/ it.kind = "fn" /\ FieldHas(it, "structural") /\ FieldHas(it, "final")
    \/ it.kind = "type" /\ FieldHas(it, "variadic")
    \/ it.kind = "static" /\ it.mutability

ItemMsg(it) ==
    CASE it.kind = "fn" -> "cannot specify both 'structural' and 'final'"
      [] it.kind = "type" ->
           "the 'variadic' attribute can only be applied to imported ('extern') functions"
      [] it.kind = "static" -> "cannot import mutable globals yet"

RECURSIVE ItemMsgs(_, _)
\* the diagnostics of the rejected items from i on, in source order
ItemMsgs(items, i) ==
    IF i > Len(items) THEN <<>>
    ELSE (IF ItemRejected(items[i]) THEN <<ItemMsg(items[i])>> ELSE <<>>)
         \o ItemMsgs(items, i + 1)

RECURSIVE AcceptedIdents(_, _)
\* the identifiers of the accepted items from i on, in source order
AcceptedIdents(items, i) ==
    IF i > Len(items) THEN <<>>
    ELSE (IF ItemRejected(items[i]) THEN <<>> ELSE <<items[i].ident>>)
         \o AcceptedIdents(items, i + 1)

\* the diagnostics of the block itself: the ABI, the module attributes
BlockMsgs(fm) ==
    (IF fm.abi \in {None, Some("C")} THEN <<>>
     ELSE <<"only foreign mods with the 'C' ABI are allowed">>)
    \o (IF FieldHas(fm, "module") /\ FieldHas(fm, "raw_module")
        THEN <<"cannot specify both 'module' and 'raw_module'">> ELSE <<>>)

RECURSIVE UnsupportedItems(_, _)
\* the positions from i on of the impl items that are not methods
UnsupportedItems(items, i) ==
    IF i > Len(items) THEN <<>>
    ELSE (IF items[i] # "method" THEN <<i>> ELSE <<>>) \o UnsupportedItems(items, i + 1)

ErrorMsgs == [i \in DOMAIN last.errors |-> last.errors[i].msg]
ImportNames == [i \in DOMAIN program.imports |-> program.imports[i].kind.rust_name]

\* C24: in a foreign block (and likewise an impl block) every item is
\* lowered whatever diagnostics an earlier sibling, the ABI or the module
\* attributes produced: the batch returned holds the block's own
\* diagnostics and one for every rejected item, and every accepted item,
\* also one after a rejected sibling, is appended to Program.imports.
C24_Siblings ==
    /\ (last.op = "foreign_mod" /\ last.result # "Panic") =>
          /\ ErrorMsgs = BlockMsgs(last.input[1]) \o ItemMsgs(last.input[1].items, 1)
          /\ ImportNames = AcceptedIdents(last.input[1].items, 1)
          /\ last.result = "Err" <=> last.errors # <<>>
    /\ (last.op = "impl" /\ last.result # "Panic") =>
          /\ [i \in DOMAIN last.errors |-> last.errors[i].span[2]]
                = UnsupportedItems(last.input[1].items, 1)
          /\ last.result = "Err" <=> last.errors # <<>>

\* a block with a foreign ABI and two module attributes whose first and
\* third items are rejected and whose second item is imported
C24_Witness ==
    /\ last.op = "foreign_mod"
    /\ last.input[1].abi = Some("Rust")
    /\ last.input[1].groups # <<>>
    /\ Len(last.input[1].items) = 3
    /\ ItemRejected(last.input[1].items[1])
    /\ ~ItemRejected(last.input[1].items[2])
    /\ ItemRejected(last.input[1].items[3])
    /\ Len(last.errors) = 4
    /\ Len(program.imports) = 1

----------------------------------------------------------------------------
(* SpecImport: one imported function with method attributes *)

KindToks ==
    {T("method"), TV("static_method_of", "B"), T("constructor"), TV("js_class", "K"),
     T("catch")}

ResultOf(ty) == TPath(FALSE, 1, "Result", Angle(<<GType(ty)>>))

\* signatures varying the first argument and the return type
KindDecls ==
    {PlainDecl,
     FnDecl(FALSE, FALSE, FALSE, "none", <<TRef(FALSE, Ident("A"))>>, Some(Ident("R"))),
     FnDecl(FALSE, FALSE, FALSE, "none", <<TRef(TRUE, Ident("A"))>>, Some(Ident("R"))),
     FnDecl(FALSE, FALSE, FALSE, "none", <<Ident("A")>>, Some(ResultOf(Ident("R")))),
     FnDecl(FALSE, FALSE, FALSE, "none", <<TRef(FALSE, Ident("A"))>>,
            Some(ResultOf(Ident("R")))),
     FnDecl(FALSE, FALSE, FALSE, "none", <<TRef(FALSE, TPath(FALSE, 2, "A", NoArgs))>>,
            Some(Ident("R"))),
     FnDecl(FALSE, FALSE, FALSE, "none", <<TRef(FALSE, TTuple(0))>>, Some(TTuple(2)))}

KindBlocks ==
    {ItemForeignMod(None, <<>>, <<ForeignFn(<<Paren(toks)>>, d)>>) :
        toks \in ToksOver(KindToks), d \in KindDecls}

NextImport == steps = 0 /\ \E fm \in KindBlocks : LowerForeignMod(fm)

SpecImport == Init /\ [][NextImport]_vars

----------------------------------------------------------------------------
(* Properties of the kind of an imported function (SpecImport) *)

FnArgs == last.input[1].items[1].decl.args
FnRet == last.input[1].items[1].decl.ret

\* the first argument exists and is a shared reference to a path of one
\* segment
SharedRefToPath ==
    /\ FnArgs # <<>>
    /\ FnArgs[1].k = "ref" /\ ~FnArgs[1].mut
    /\ FnArgs[1].elem.k = "path" /\ FnArgs[1].elem.nseg = 1

\* the return type as JS sees it: with catch, the T of Result<T>
JsRet == IF Given("catch") THEN FnRet[1].args.gargs[1].ty[1] ELSE FnRet[1]

\* the class name unless js_class overrides it
ClassOr(name) == IF Given("js_class") THEN "K" ELSE name

ImportedKind == program.imports[1].kind.kind

\* C25: the kind of an accepted imported function follows the precedence
\* method > static_method_of > constructor > none: `method` gives a
\* non-static Method on the class of the first argument (and is rejected
\* unless that argument exists and is a shared reference to a one-segment
\* path), `static_method_of = T` a static Method of T, `constructor` a
\* Constructor of the class of the (catch-unwrapped) return type, anything
\* else Normal; js_class overrides the class name in the three method cases.
C25_KindPrecedence ==
    FnBlock =>
        /\ (Given("method") /\ ~SharedRefToPath) => last.result = "Err"
        /\ last.result = "Ok" =>
              IF Given("method")
              THEN /\ ImportedKind.k = "Method"
                   /\ ImportedKind.kind.op = "Operation"
                   /\ ~ImportedKind.kind.is_static
                   /\ ImportedKind.class = ClassOr(FnArgs[1].elem.ident)
                   /\ ImportedKind.ty = FnArgs[1].elem
              ELSE IF Given("static_method_of")
              THEN /\ ImportedKind.k = "Method"
                   /\ ImportedKind.kind.op = "Operation"
                   /\ ImportedKind.kind.is_static
                   /\ ImportedKind.class = ClassOr("B")
              ELSE IF Given("constructor")
              THEN /\ ImportedKind.k = "Method"
                   /\ ImportedKind.kind.op = "Constructor"
                   /\ ImportedKind.class = ClassOr(JsRet.ident)
                   /\ ImportedKind.ty = JsRet
              ELSE ImportedKind.k = "Normal"

\* an accepted import carrying method, static_method_of and js_class
C25_Witness ==
    /\ FnBlock
    /\ last.result = "Ok"
    /\ Given("method") /\ Given("static_method_of") /\ Given("js_class")
    /\ ImportedKind.class = "K"
    /\ ~ImportedKind.kind.is_static

----------------------------------------------------------------------------
(* SpecInline: foreign blocks with inline_js lowered one after the other *)

InlineAttrs ==
    {<<>>, <<Paren(<<TV("inline_js", "a")>>)>>, <<Paren(<<TV("inline_js", "b")>>)>>,
     <<Paren(<<TV("module", "m"), TV("inline_js", "a")>>)>>,
     <<Paren(<<TV("inline_js", "b"), TV("raw_module", "r")>>)>>}

InlineItems ==
    {<<>>, <<ForeignFn(<<>>, PlainDecl)>>, <<ForeignStatic(<<>>, TRUE), ForeignType(<<>>)>>}

InlineBlocks ==
    {ItemForeignMod(None, groups, items) : groups \in InlineAttrs, items \in InlineItems}

NextInline == steps < MaxSteps /\ opts = None /\ \E fm \in InlineBlocks : LowerForeignMod(fm)

SpecInline == Init /\ [][NextInline]_vars

----------------------------------------------------------------------------
(* Properties of the inline_js pool (SpecInline) *)

\* the block stores its snippet: inline_js without module and raw_module
StoresSnippet(fm) ==
    FieldHas(fm, "inline_js") /\ ~FieldHas(fm, "module") /\ ~FieldHas(fm, "raw_module")

\* the code of the block's inline_js attribute
SnippetOf(fm) == FirstValOf(fm.groups[1].toks, "inline_js")

IsInline(imp) == imp.module[1] = "Inline"

\* C26: every import whose module is Inline(i) has i < len(inline_js), and
\* inline_js[i] is the code of the inline_js attribute of the block the
\* import came from; a block appends its code exactly once when it has
\* neither module nor raw_module, and no block appends anything else.
C26_InlineIndices ==
    [][/\ \A k \in DOMAIN program'.imports :
             IsInline(program'.imports[k])
                => program'.imports[k].module[2] < Len(program'.inline_js)
       /\ (last'.op = "foreign_mod" /\ steps' = steps + 1) =>
             /\ program'.inline_js =
                   IF StoresSnippet(last'.input[1])
                   THEN Append(program.inline_js, SnippetOf(last'.input[1]))
                   ELSE program.inline_js
             /\ \A k \in (Len(program.imports) + 1)..Len(program'.imports) :
                   IF StoresSnippet(last'.input[1])
                   THEN /\ IsInline(program'.imports[k])
                        /\ program'.inline_js[program'.imports[k].module[2] + 1]
                              = SnippetOf(last'.input[1])
                   ELSE ~IsInline(program'.imports[k])]_vars

\* two blocks with different snippets, each with an import pointing at its
\* own
C26_Witness ==
    /\ steps = 2
    /\ program.inline_js = <<"a", "b">>
    /\ Len(program.imports) = 2
    /\ program.imports[1].module = <<"Inline", 0>>
    /\ program.imports[2].module = <<"Inline", 1>>

----------------------------------------------------------------------------
(* SpecInvoke: process with a callback that leaves a line in the prelude *)

InvokeLine == "const x = 1;"

InvokePool == {Invoke(<<InvokeLine>>, "wasm.f", ok) : ok \in BOOLEAN}

NextInvoke ==
    \/ \E outptr \in Outptrs({"I32", "I64"}), kinds \in KindSeqs({"get", "opt", "fail"}),
          iv \in InvokePool :
          \E ret \in Rets(outptr, {"get", "opt", "silent", "fail"}) :
             Process(ExportBinding(outptr, kinds, ret), ExportFunction(outptr, kinds, ret),
                     TRUE, None, iv)
    \/ \E outptr \in Outptrs({"I32", "I64"}), kinds \in KindSeqs({"get", "opt", "fail"}),
          iv \in InvokePool :
          \E ret \in Rets(outptr, {"get", "opt", "silent", "fail"}) :
             Process(ImportBinding(outptr, kinds, ret), ImportFunction(kinds, ret),
                     FALSE, None, iv)

SpecInvoke == InitAdapter /\ [][NextInvoke]_vars

----------------------------------------------------------------------------
(* Properties of the invoke callback (SpecInvoke) *)

\* how often the callback ran: the lines it left in the prelude it was
\* handed
InvokeCalls ==
    Cardinality({i \in DOMAIN builder.args_prelude : builder.args_prelude[i] = InvokeLine})

\* the prelude lines of the argument instructions, in order, as
\* JsBuilder::prelude keeps them (trimmed)
RECURSIVE ArgPrelude(_)
ArgPrelude(instrs) ==
    IF instrs = <<>> THEN <<>> ELSE trim(Head(instrs).prelude) \o ArgPrelude(Tail(instrs))

\* s ends with the lines of t
EndsWith(s, t) == Len(t) <= Len(s) /\ SubSeq(s, Len(s) - Len(t) + 1, Len(s)) = t

\* C27: process calls the invoke callback at most once, and only after
\* every argument instruction and the return instruction have been
\* evaluated and the aggregate return types validated, the prelude then
\* holding all prelude lines of the arguments; it is not called when
\* process fails with an evaluator error or 'invalid aggregate return
\* type', and it is called exactly once when process returns Ok.
C27_InvokeOnce ==
    adapter.op = "process" =>
        /\ InvokeCalls <= 1
        /\ adapter.result = "Ok" => InvokeCalls = 1
        /\ adapter.error \in {"evaluator", "invalid aggregate return type"}
              => InvokeCalls = 0
        /\ InvokeCalls = 1 =>
              /\ \A k \in DOMAIN ArgStream : ArgStream[k].ok
              /\ EndsWith(builder.args_prelude, ArgPrelude(ArgStream) \o <<InvokeLine>>)
              /\ Len(RetStream) = 1 => RetStream[1].ok /\ builder.ts_ret # None
              /\ ~BadOutptr

\* an adapter with an argument that needs a prelude and a return value,
\* whose callback ran and failed
C27_Witness ==
    /\ adapter.op = "process"
    /\ adapter.result = "Err" /\ adapter.error = "invoke"
    /\ InvokeCalls = 1
    /\ \E k \in DOMAIN ArgStream : ArgStream[k].prelude # <<>>
    /\ Len(RetStream) = 1

----------------------------------------------------------------------------
(* Properties of the addresses behind the return pointer (SpecBuilder) *)

\* addresses the module may hand over as arg0: multiples of 8
AlignedBases == {8, 16, 24}

\* first byte, and byte after the last, of the element `view[base / size
\* + i]` that the loops of lines 239-268 and 299-317 name for the i-th
\* type t of the list (i from 0)
FirstByte(t, i, base) == (base \div size(t) + i) * ElementWidth(mem(t))
PastByte(t, i, base) == FirstByte(t, i, base) + ElementWidth(mem(t))

\* the elements named for the list do not share a byte
Disjoint(list, base) ==
    \A i, j \in DOMAIN list :
        i < j => \/ PastByte(list[i], i - 1, base) <= FirstByte(list[j], j - 1, base)
                 \/ PastByte(list[j], j - 1, base) <= FirstByte(list[i], i - 1, base)

\* the list mixes 4-byte and 8-byte types
MixedWidths(list) == \E i, j \in DOMAIN list : size(list[i]) # size(list[j])

\* an adapter was emitted whose return value goes through the return pointer
ThroughOutptr == Emitted /\ HasOutptr

\* C28: for every return_via_outptr list over i32, f32 and f64, lists
\* mixing 4-byte and 8-byte types included, the byte ranges of the
\* accesses `view[base / sizeof(t_i) + i]` for distinct i are pairwise
\* disjoint, for the reads of an export (base = retptr = 8) and the writes
\* of an import (base = arg0, a multiple of 8).
C28_Original ==
    ThroughOutptr =>
        \A base \in (IF ProcessInput.incoming_args THEN {RetPtr} ELSE AlignedBases) :
            Disjoint(OutList, base)

\* lists of types of one width are laid out without overlap
C28_SameWidth ==
    (ThroughOutptr /\ ~MixedWidths(OutList)) =>
        \A base \in (IF ProcessInput.incoming_args THEN {RetPtr} ELSE AlignedBases) :
            Disjoint(OutList, base)

----------------------------------------------------------------------------
(* Properties of the hole at the end of the u32 range (SpecEnum) *)

\* a public enum of unit variants whose discriminants are all integer
\* literals of at most 2^32 - 1
LiteralsInRange(e) ==
    /\ e.pub /\ e.variants # <<>>
    /\ \A i \in DOMAIN e.variants :
          /\ e.variants[i].unit
          /\ e.variants[i].disc # None
          /\ e.variants[i].disc[1].k = "int"
          /\ le(e.variants[i].disc[1].v, u32_max)

HasMaxValue(e) == \E i \in DOMAIN e.variants : e.variants[i].disc = IntLit(Limb - 1, Limb - 1)

\* C29: for every enum whose literal discriminants are all at most
\* 2^32 - 1, also when the largest is exactly 2^32 - 1, the additions
\* `window[0] + 1` and `last + 1` do not overflow: the lowering does not
\* panic on them and the hole of an accepted enum is one more than a
\* variant value, not a wrapped sum.
C29_Original ==
    (last.op = "enum" /\ LiteralsInRange(last.input[1])) =>
        /\ ~(last.result = "Panic" /\ last.errors[1].msg = "attempt to add with overflow")
        /\ last.result = "Ok" =>
              \E v \in ValuesOf(PushedEnum) : PushedEnum.hole = succ(v)

\* without the value 2^32 - 1 neither addition overflows
C29_BelowMax ==
    (last.op = "enum" /\ LiteralsInRange(last.input[1]) /\ ~HasMaxValue(last.input[1])) =>
        /\ ~(last.result = "Panic" /\ last.errors[1].msg = "attempt to add with overflow")
        /\ last.result = "Ok" =>
              \E v \in ValuesOf(PushedEnum) : PushedEnum.hole = succ(v)

----------------------------------------------------------------------------
(* Properties of rejected declarations (Spec) *)

\* the step lowered one declaration of kind op and returned a diagnostic
Rejected(op) == steps' = steps + 1 /\ last'.op = op /\ last'.result = "Err"

\* C30: when the lowering of a single declaration (function, struct, enum,
\* impl method, constant) returns a diagnostic, the unused-attribute
\* diagnostic of the audit in strict mode included, the sequences of the
\* Program are what they were before: a rejected declaration contributes
\* no entry.
C30_Original ==
    [][\A op \in {"fn", "struct", "enum", "method", "const"} :
          Rejected(op) => program' = program]_vars

\* functions, structs and enums are pushed after their last check
C30_PushedLast ==
    [][\A op \in {"fn", "struct", "enum"} : Rejected(op) => program' = program]_vars

\* methods and constants leave an entry only when the audit is what failed
C30_AuditOnly ==
    [][\A op \in {"method", "const"} :
          (Rejected(op) /\ program' # program) =>
              /\ strict
              /\ \A i \in DOMAIN last'.errors : last'.errors[i].msg = UnusedMsg]_vars

====
